---- MODULE Spec2Model ----
(***************************************************************************)
(* AstroPixel backend: dataset rows, the local tile tree, the object       *)
(* store, the background tile job (process_tiles_background), the dataset  *)
(* API handlers, the tile routes and the expiry sweeper.                   *)
(***************************************************************************)
EXTENDS Integers, FiniteSets, Sequences, TLC

\* ------------------------------------------------------------------ bounds
MaxDatasets == 2

MaxUploads == 2
MaxChunks == 2

\* ------------------------------------------------------- program constants
TILE_SIZE == 256
ZoomCap == 30
\* settings.TILE_FORMAT, the extension TileGenerator and SimpleTileGenerator write
TILE_FORMAT == "jpg"
\* the extension PerfectTileGenerator writes
PERFECT_FORMAT == "png"

\* ------------------------------------------------------------ input domains
DatasetIds == 1..MaxDatasets
\* callers: "anon" carries no credential, "admin" is the user named Admin,
\* "u0" is a user whose is_active is false
ActiveUsers == {"u1", "admin"}
Callers == ActiveUsers \cup {"anon", "u0"}
NoOwner == "none"
Names == {"m31", "bigmap"}
\* <<width, height>> of the uploaded rasters
ImageSizes == {<<513, 300>>, <<100, 80>>}
\* chunked upload: session ids in the order uuid4 hands them out, the chunk
\* indexes a client sends (MaxChunks is outside every session's range), chunk
\* bodies, file names, free disk space in chunks
UploadIds == 1..MaxUploads
ChunkIndexes == 0..MaxChunks
Contents == {"a", "b"}
FileNames == {"scan.tif", "notes.txt"}
FreeSpace == {1, 3, 4}
\* the extensions the tile route accepts
Formats == {"jpg", "png", "webp"}

VARIABLES
    datasets,      \* MetadataStore: id -> Dataset row; original_file_path is the
                   \* name under UPLOAD_DIR of a file assembled by complete, ""
                   \* for a file under a name no chunked upload uses
    localTiles,    \* files {tile_base_path}/{z}/{x}/{y}.* as <<id, z, x, y>>
    cloudTiles,    \* ObjectStore keys tiles/{id}/{z}/{x}/{y}.* as <<id, z, x, y>>
    localPreview,  \* ids with datasets/{id}_preview.jpg on disk
    cloudPreview,  \* ids with previews/{id}_preview.jpg in the ObjectStore
    cloudMeta,     \* metadata/datasets/{id}.json in the ObjectStore, as <<id, saved row>>
    origFile,      \* ids whose original_file_path exists on disk
    job,           \* id -> position of process_tiles_background for that id
    cloudEnabled,  \* cloud_storage.enabled (USE_S3)
    prefixDeletes, \* ids for which delete_dataset_tiles (delete_prefix) was issued
    resp,          \* the last operation and its outcome
    sweeper,       \* cleanup_scheduler: position and the pass's query result
    chunked_uploads, \* upload_id -> session of the chunked upload endpoints
    tempDir,       \* upload_id -> the chunk files under TEMP_DIR/{upload_id}
    uploadDir,     \* filename -> content of UPLOAD_DIR/{filename} written by complete
    completes,     \* complete_chunked_upload calls suspended at an await: the
                   \* session object each holds and the chunks it has copied
    creating,      \* names that passed the check of create_dataset_entry, not yet inserted
    tileFormat,    \* id -> extension of the tile files written for that id
    tile_cache,    \* R2TileCache.tile_cache (OrderedDict), oldest first:
                   \* <<key, data>> with key <<id, z, x, y, format>>
    pool,          \* fetch_tiles_parallel_sync calls in progress and their worker tasks
    tile_gen       \* a PerfectTileGenerator.generate_tiles call: its position and the
                   \* values it has passed to progress_callback

vars == <<datasets, localTiles, cloudTiles, localPreview, cloudPreview, cloudMeta,
          origFile, job, cloudEnabled, prefixDeletes, resp, sweeper,
          chunked_uploads, tempDir, uploadDir, completes, creating, tileFormat,
          tile_cache, pool, tile_gen>>

\* the state of the sweeper, of the chunked uploads and of pending creates
sweepVars == <<sweeper>>
chunkVars == <<chunked_uploads, tempDir, uploadDir, completes>>

\* ------------------------------------------------------------ tile arithmetic
Max(a, b) == IF a >= b THEN a ELSE b

Range(s) == {s[k] : k \in DOMAIN s}

Pow2(n) == 2 ^ n

\* math.ceil(math.log2(max_dim / tile_size)); negative when max_dim <= tile_size / 2
CeilLog2Ratio(max_dim, tile_size) ==
    IF max_dim > tile_size
    THEN CHOOSE k \in 1..ZoomCap :
             /\ tile_size * Pow2(k) >= max_dim
             /\ tile_size * Pow2(k - 1) < max_dim
    ELSE 0 - (CHOOSE j \in 0..ZoomCap :
                 /\ max_dim * Pow2(j) <= tile_size
                 /\ max_dim * Pow2(j + 1) > tile_size)

get_metadata_max_zoom(width, height) == CeilLog2Ratio(Max(width, height), TILE_SIZE)

\* scaled_width = max(1, int(orig_width * 2 ** (zoom - max_zoom)))
ScaledDim(orig, zoom, max_zoom) == Max(1, orig \div Pow2(max_zoom - zoom))

\* tiles_x = math.ceil(scaled_width / tile_size)
TilesAcross(orig, zoom, max_zoom) ==
    (ScaledDim(orig, zoom, max_zoom) + TILE_SIZE - 1) \div TILE_SIZE

\* the (x, y) positions one zoom level of the generator writes
ZoomTiles(d, zoom, max_zoom, width, height) ==
    {<<d, zoom, x, y>> : x \in 0..(TilesAcross(width, zoom, max_zoom) - 1),
                         y \in 0..(TilesAcross(height, zoom, max_zoom) - 1)}

TilesOf(tiles, d) == {t \in tiles : t[1] = d}

\* ------------------------------------------------------------------- rows
Statuses == {"pending", "processing", "completed", "failed"}

NoRow ==
    [exists |-> FALSE, name |-> "", original_file_path |-> "",
     owner_id |-> NoOwner, is_demo |-> FALSE,
     has_expiry |-> FALSE, expired |-> FALSE, width |-> 0, height |-> 0,
     max_zoom |-> 0, processing_status |-> "pending", processing_progress |-> 0,
     tiles_uploaded_to_cloud |-> FALSE, r2_upload_error |-> FALSE, error |-> FALSE]

NoJob ==
    [pc |-> "none", zoom |-> 0, gen |-> "none", size |-> <<0, 0>>, escaped |-> FALSE,
     corrupted_tiles |-> 0, black |-> {}]

\* the last request: who asked what of which dataset, what the row was when
\* the handler read it, the HTTP status, whether any state was changed and
\* whether tile bytes went back to the caller
NoResp ==
    [op |-> "none", caller |-> "anon", ds |-> 0, code |-> "none",
     existed |-> FALSE, demo |-> FALSE, owner |-> NoOwner,
     effect |-> FALSE, bytes |-> FALSE, req |-> <<>>, note |-> ""]

\* fetch_tiles_parallel_sync calls that can be in progress at once
MaxCalls == 2
Calls == 1..MaxCalls

\* R2TileCache(max_cache_size): the entries the memory cache keeps
max_cache_size == 2

\* what a fetch that failed returns, and the bytes an object can hold
None == "None"
TileData == {"a", "b"}

\* no fetch_tiles_parallel_sync call in progress in this slot
IdleCall == [pc |-> "idle", tiles |-> <<>>, i |-> 0, results |-> {}, tasks |-> {},
             fetches |-> 0]

\* the largest max_zoom of the images handed to generate_tiles
MaxGenZoom == 3

\* no generate_tiles call made yet
NoRun == [pc |-> "idle", mode |-> "none", has_rasterio |-> FALSE, max_zoom |-> 0,
          zoom |-> 0, calls |-> <<>>, result |-> "none", fell_back |-> FALSE]

\* the sweeper between passes
Sleeping == [pc |-> "sleep", todo |-> {}, loaded |-> FALSE, log |-> <<>>]

\* chunked_uploads[upload_id]: absent (open = FALSE) or the session dict;
\* issued records that uuid4 has handed the id out, reordered that a chunk
\* arrived after one of a higher index, overwritten that an index was sent
\* again with another body
NoSession ==
    [open |-> FALSE, issued |-> FALSE, filename |-> "", filesize |-> 0,
     total_chunks |-> 0, received_chunks |-> {}, reordered |-> FALSE,
     overwritten |-> FALSE]

\* a chunk file that is not there
NoChunk == "none"

NoChunks == [i \in ChunkIndexes |-> NoChunk]

\* no complete_chunked_upload call in this slot
NoComplete == [pc |-> "idle", u |-> 0, name |-> "", session |-> NoSession, i |-> 0]

\* a file of UPLOAD_DIR that is not there
NoFile == [exists |-> FALSE, content |-> <<>>]

Exists(d) == datasets[d].exists

ExistingIds == {d \in DatasetIds : Exists(d)}

SetMax(S) == CHOOSE m \in S : \A n \in S : n <= m

\* the id the next INSERT receives (max rowid + 1)
NextId == IF ExistingIds = {} THEN 1 ELSE SetMax(ExistingIds) + 1

Resp(op, caller, d, code, effect, bytes) ==
    [op |-> op, caller |-> caller, ds |-> d, code |-> code,
     existed |-> (d \in DatasetIds /\ Exists(d)),
     demo |-> (d \in DatasetIds /\ Exists(d) /\ datasets[d].is_demo),
     owner |-> IF d \in DatasetIds /\ Exists(d) THEN datasets[d].owner_id ELSE NoOwner,
     effect |-> effect, bytes |-> bytes, req |-> <<>>, note |-> ""]

\* the ids with a metadata document in the ObjectStore
MetaIds(meta) == {m[1] : m \in meta}

\* CloudStorage.save_dataset_metadata: put_object of metadata/datasets/{id}.json,
\* replacing the document of that id
save_dataset_metadata(d, row) ==
    {m \in cloudMeta : m[1] # d} \cup {<<d, row>>}

\* ------------------------------------------------------------------- Init
\* One demo dataset is present at start (seeded, or synced from the
\* ObjectStore metadata): completed, with its tiles on disk, in the
\* ObjectStore, or both.
DemoRow ==
    [NoRow EXCEPT !.exists = TRUE, !.name = "m31", !.is_demo = TRUE,
                  !.width = 512, !.height = 256,
                  !.max_zoom = get_metadata_max_zoom(512, 256),
                  !.processing_status = "completed", !.processing_progress = 100]

AllZoomTiles(d, max_zoom, width, height) ==
    UNION {ZoomTiles(d, z, max_zoom, width, height) : z \in 0..max_zoom}

DemoTiles == AllZoomTiles(1, DemoRow.max_zoom, DemoRow.width, DemoRow.height)

Init ==
    /\ cloudEnabled \in BOOLEAN
    /\ \E onDisk \in BOOLEAN :
        /\ (~cloudEnabled) => onDisk
        /\ localTiles = IF onDisk THEN DemoTiles ELSE {}
        /\ origFile = IF onDisk THEN {1} ELSE {}
        /\ localPreview = IF onDisk THEN {1} ELSE {}
    /\ cloudTiles = IF cloudEnabled THEN DemoTiles ELSE {}
    /\ cloudPreview = IF cloudEnabled THEN {1} ELSE {}
    /\ cloudMeta = IF cloudEnabled
                   THEN {<<1, [DemoRow EXCEPT !.tiles_uploaded_to_cloud = TRUE]>>}
                   ELSE {}
    /\ datasets = [d \in DatasetIds |->
                     IF d = 1
                     THEN [DemoRow EXCEPT !.tiles_uploaded_to_cloud = cloudEnabled]
                     ELSE NoRow]
    /\ job = [d \in DatasetIds |-> NoJob]
    /\ prefixDeletes = {}
    /\ resp = NoResp
    /\ sweeper = Sleeping
    /\ chunked_uploads = [u \in UploadIds |-> NoSession]
    /\ tempDir = [u \in UploadIds |-> NoChunks]
    /\ uploadDir = [f \in FileNames |-> NoFile]
    /\ completes = [c \in Calls |-> NoComplete]
    /\ creating = {}
    /\ tileFormat = [d \in DatasetIds |-> IF d = 1 THEN TILE_FORMAT ELSE "none"]
    /\ tile_cache = <<>>
    /\ pool = [c \in Calls |-> IdleCall]
    /\ tile_gen = NoRun

\* ------------------------------------------------- upload (create_entry)
\* create_dataset_entry: unique-name check, INSERT with status pending,
\* metadata from TileGenerator.get_metadata
create_dataset_entry(d, name, size) ==
    [NoRow EXCEPT !.exists = TRUE, !.name = name,
                  !.width = size[1], !.height = size[2],
                  !.max_zoom = get_metadata_max_zoom(size[1], size[2]),
                  !.processing_status = "pending", !.processing_progress = 0]

NameInUse(name) == \E d \in DatasetIds : Exists(d) /\ datasets[d].name = name

\* the name column declared without unique=True
UniqueViolation_Off(d, name) == FALSE

\* name = Column(String(255), unique=True): a flush that gives row d this name
\* raises IntegrityError when another row holds it
UniqueViolation(d, name) ==
    \E e \in DatasetIds \ {d} : Exists(e) /\ datasets[e].name = name

\* POST /datasets/upload: get_current_user_required, then create_dataset_entry,
\* owner/expiry assignment and add_task(process_tiles_background)
upload_dataset(caller, name, size) ==
    /\ NextId \in DatasetIds
    /\ job[NextId].pc \in {"none", "done"}
    /\ IF caller \notin ActiveUsers
       THEN /\ resp' = Resp("upload", caller, 0,
                             IF caller = "u0" THEN "403" ELSE "401", FALSE, FALSE)
            /\ UNCHANGED <<datasets, origFile, job>>
       ELSE IF NameInUse(name)
       THEN /\ resp' = Resp("upload", caller, 0, "400", FALSE, FALSE)
            /\ UNCHANGED <<datasets, origFile, job>>
       ELSE LET d == NextId IN
            /\ datasets' = [datasets EXCEPT ![d] =
                   [create_dataset_entry(d, name, size) EXCEPT
                        !.owner_id = caller, !.is_demo = FALSE, !.has_expiry = TRUE]]
            /\ origFile' = origFile \cup {d}
            /\ job' = [job EXCEPT ![d] = [NoJob EXCEPT !.pc = "start", !.size = size]]
            /\ resp' = Resp("upload", caller, d, "201", TRUE, FALSE)
    /\ UNCHANGED <<localTiles, cloudTiles, localPreview, cloudPreview, cloudMeta,
                   cloudEnabled, prefixDeletes, sweepVars, chunkVars, creating,
                   tileFormat, tile_cache, pool, tile_gen>>

\* what get_metadata can raise: ValueError (a file that cannot be opened, a
\* bad signature) or another exception
MetadataErrors == {"ValueError", "Exception"}

\* POST /datasets/upload with a file whose metadata cannot be read:
\* create_dataset_entry has committed its INSERT when generator.get_metadata()
\* raises; its handler rolls back, which undoes nothing that was committed,
\* and re-raises; upload_dataset unlinks the file and answers 400 or 500. No
\* job is scheduled.
upload_unreadable(caller, name, raised) ==
    /\ NextId \in DatasetIds
    /\ job[NextId].pc \in {"none", "done"}
    /\ IF caller \notin ActiveUsers
       THEN /\ resp' = Resp("upload", caller, 0,
                             IF caller = "u0" THEN "403" ELSE "401", FALSE, FALSE)
            /\ UNCHANGED datasets
       ELSE IF NameInUse(name)
       THEN /\ resp' = Resp("upload", caller, 0, "400", FALSE, FALSE)
            /\ UNCHANGED datasets
       ELSE /\ datasets' = [datasets EXCEPT ![NextId] =
                   [NoRow EXCEPT !.exists = TRUE, !.name = name,
                                 !.processing_status = "pending"]]
            /\ resp' = [Resp("upload", caller, 0,
                              IF raised = "ValueError" THEN "400" ELSE "500",
                              TRUE, FALSE)
                            EXCEPT !.req = <<name>>, !.note = "metadata"]
    /\ UNCHANGED <<origFile, job, localTiles, cloudTiles, localPreview, cloudPreview,
                   cloudMeta, cloudEnabled, prefixDeletes, sweepVars, chunkVars,
                   creating, tileFormat, tile_cache, pool, tile_gen>>

\* The same handler in two steps, for server processes that share the
\* database: create_check is create_dataset_entry up to its name check
\* (lines 44-51), create_insert the INSERT and what follows it.
create_check(caller, name) ==
    /\ caller \in ActiveUsers
    /\ ~NameInUse(name)
    /\ <<caller, name>> \notin creating
    /\ creating' = creating \cup {<<caller, name>>}
    /\ UNCHANGED <<datasets, localTiles, cloudTiles, localPreview, cloudPreview,
                   cloudMeta, origFile, job, cloudEnabled, prefixDeletes, resp,
                   sweepVars, chunkVars, tileFormat, tile_cache, pool, tile_gen>>

create_insert(caller, name, size) ==
    /\ <<caller, name>> \in creating
    /\ creating' = creating \ {<<caller, name>>}
    /\ IF UniqueViolation(0, name)
       THEN \* IntegrityError: rollback, the handler unlinks the file, 500
            /\ resp' = Resp("upload", caller, 0, "500", FALSE, FALSE)
            /\ UNCHANGED <<datasets, origFile, job>>
       ELSE LET d == NextId IN
            /\ d \in DatasetIds
            /\ job[d].pc \in {"none", "done"}
            /\ datasets' = [datasets EXCEPT ![d] =
                   [create_dataset_entry(d, name, size) EXCEPT
                        !.owner_id = caller, !.is_demo = FALSE, !.has_expiry = TRUE]]
            /\ origFile' = origFile \cup {d}
            /\ job' = [job EXCEPT ![d] = [NoJob EXCEPT !.pc = "start", !.size = size]]
            /\ resp' = Resp("upload", caller, d, "201", TRUE, FALSE)
    /\ UNCHANGED <<localTiles, cloudTiles, localPreview, cloudPreview, cloudMeta,
                   cloudEnabled, prefixDeletes, sweepVars, chunkVars, tileFormat,
                   tile_cache, pool, tile_gen>>

\* the clock passes expires_at of a user dataset
Expire(d) ==
    /\ Exists(d) /\ datasets[d].has_expiry /\ ~datasets[d].expired
    /\ datasets' = [datasets EXCEPT ![d].expired = TRUE]
    /\ UNCHANGED <<localTiles, cloudTiles, localPreview, cloudPreview, cloudMeta,
                   origFile, job, cloudEnabled, prefixDeletes, resp, sweepVars,
                   chunkVars, creating, tileFormat, tile_cache, pool, tile_gen>>

\* ---------------------------------------- process_tiles_background (the job)
\* safe_commit: db.commit() with up to three attempts; the rollback after a
\* failed attempt discards the pending attribute changes, so a commit whose
\* first attempt fails persists nothing (ok = FALSE)
safe_commit(d, row, ok) ==
    IF ok THEN [datasets EXCEPT ![d] = row] ELSE datasets

JobAt(d, pc) == job[d].pc = pc

JobDone(d, escaped) ==
    [job EXCEPT ![d] = [NoJob EXCEPT !.pc = "done", !.escaped = escaped,
                                     !.corrupted_tiles = job[d].corrupted_tiles,
                                     !.black = job[d].black]]

JobGenFrame ==
    UNCHANGED <<cloudEnabled, prefixDeletes, resp, origFile, sweepVars, chunkVars,
                creating, tile_cache, pool, tile_gen>>

JobFrame == JobGenFrame /\ UNCHANGED tileFormat

\* the row was deleted under the job: the next flush raises StaleDataError,
\* which safe_commit does not catch
JobRowGone(d) ==
    /\ job' = JobDone(d, TRUE)
    /\ UNCHANGED <<datasets, localTiles, cloudTiles, localPreview, cloudPreview,
                   cloudMeta>>

\* lines 147-183: lookup, memory check, transition to processing
JobStart(d, mem, ok) ==
    /\ JobAt(d, "start")
    /\ IF ~Exists(d)
       THEN /\ job' = JobDone(d, FALSE)
            /\ UNCHANGED datasets
       ELSE IF d \notin origFile
       THEN \* file_path.stat() raises: the outer handler marks the row failed
            /\ datasets' = safe_commit(d, [datasets[d] EXCEPT
                               !.processing_status = "failed",
                               !.processing_progress = 0], ok)
            /\ job' = JobDone(d, FALSE)
       ELSE IF mem = "low"
       THEN /\ datasets' = safe_commit(d, [datasets[d] EXCEPT
                               !.processing_status = "failed",
                               !.processing_progress = 0, !.error = TRUE], ok)
            /\ job' = JobDone(d, FALSE)
       ELSE /\ datasets' = safe_commit(d, [datasets[d] EXCEPT
                               !.processing_status = "processing",
                               !.processing_progress = 0], ok)
            /\ job' = [job EXCEPT ![d].pc = "construct"]
    /\ UNCHANGED <<localTiles, cloudTiles, localPreview, cloudPreview, cloudMeta>>
    /\ JobFrame

\* lines 186-222: PerfectTileGenerator, else SimpleTileGenerator, else failed
JobConstruct(d, gen, ok) ==
    /\ JobAt(d, "construct")
    /\ IF ~Exists(d)
       THEN JobRowGone(d)
       ELSE /\ IF gen = "none"
               THEN /\ datasets' = safe_commit(d, [datasets[d] EXCEPT
                                       !.processing_status = "failed",
                                       !.error = TRUE], ok)
                    /\ job' = JobDone(d, FALSE)
               ELSE /\ job' = [job EXCEPT ![d].pc = "gen_begin", ![d].gen = gen]
                    /\ UNCHANGED datasets
            /\ UNCHANGED <<localTiles, cloudTiles, localPreview, cloudPreview,
                           cloudMeta>>
    /\ JobFrame

\* generate_tiles returned False: lines 304-309
JobFailed(d, ok) ==
    /\ datasets' = safe_commit(d, [datasets[d] EXCEPT
                       !.processing_status = "failed",
                       !.processing_progress = 0], ok)
    /\ job' = JobDone(d, FALSE)

\* update_progress: dataset.processing_progress = progress; safe_commit()
update_progress(d, progress, ok) ==
    safe_commit(d, [datasets[d] EXCEPT !.processing_progress = progress], ok)

JobMaxZoom(d) == get_metadata_max_zoom(job[d].size[1], job[d].size[2])

\* _generate_streaming lines 458-478 / SimpleTileGenerator.generate_tiles lines
\* 77-118: callback(5), open the source, max_zoom, callback(10)
JobGenBegin(d, opened, ok) ==
    /\ JobAt(d, "gen_begin")
    /\ IF ~Exists(d)
       THEN JobRowGone(d)
       ELSE /\ IF ~opened
               THEN JobFailed(d, ok)
               ELSE /\ datasets' = update_progress(d, 10, ok)
                    /\ job' = [job EXCEPT
                          ![d].pc = IF JobMaxZoom(d) < 0 THEN "mark" ELSE "gen_zoom",
                          ![d].zoom = IF job[d].gen = "perfect"
                                      THEN Max(JobMaxZoom(d), 0) ELSE 0]
            /\ UNCHANGED <<localTiles, cloudTiles, localPreview, cloudPreview,
                           cloudMeta>>
    /\ JobFrame

\* progress = 10 + int(((max_zoom - zoom + 1) / total_levels) * 85)
StreamingProgress(zoom, max_zoom) ==
    10 + ((max_zoom - zoom + 1) * 85) \div (max_zoom + 1)

\* base_progress = 10 + int((zoom_index / total_zoom_levels) * 80)
SimpleProgress(zoom, max_zoom) == 10 + (zoom * 80) \div (max_zoom + 1)

\* the max-zoom level with the failing positions left without a file
StreamedTiles_Skipped(positions, failing) ==
    [written |-> positions \ failing, black |-> {},
     corrupted |-> Cardinality(positions \cap failing)]

\* _generate_tiles_sequential / _generate_tiles_batched: every (x, y) of the
\* level gets a file; where src.read raises, the except branch saves a black
\* tile at the same path and adds one to corrupted_tiles
StreamedTiles(positions, failing) ==
    [written |-> positions, black |-> positions \cap failing,
     corrupted |-> Cardinality(positions \cap failing)]

\* one pass of the zoom loop. PerfectTileGenerator walks max_zoom..0 and a
\* zoom-level exception ends _generate_streaming with False; the fallback
\* SimpleTileGenerator walks 0..max_zoom and _generate_zoom_level swallows it.
\* failing: the tiles of the level whose source window cannot be read; only
\* the max-zoom level of PerfectTileGenerator reads source windows.
JobGenZoom(d, raised, failing, ok) ==
    /\ JobAt(d, "gen_zoom")
    /\ LET z == job[d].zoom
           mz == JobMaxZoom(d)
           level == ZoomTiles(d, z, mz, job[d].size[1], job[d].size[2])
           streamed == StreamedTiles(level, IF job[d].gen = "perfect" /\ z = mz
                                            THEN failing ELSE {})
           written == streamed.written
           last == IF job[d].gen = "perfect" THEN z = 0 ELSE z = mz
           next == IF job[d].gen = "perfect" THEN z - 1 ELSE z + 1
           progress == IF job[d].gen = "perfect" THEN StreamingProgress(z, mz)
                       ELSE SimpleProgress(z, mz)
       IN
       IF raised /\ job[d].gen = "perfect"
       THEN /\ IF Exists(d)
               THEN JobFailed(d, ok)
               ELSE /\ job' = JobDone(d, TRUE)
                    /\ UNCHANGED datasets
            /\ UNCHANGED localTiles
       ELSE /\ localTiles' = IF raised THEN localTiles ELSE localTiles \cup written
            /\ IF ~Exists(d)
               THEN /\ job' = JobDone(d, TRUE)
                    /\ UNCHANGED datasets
               ELSE /\ datasets' = update_progress(d, progress, ok)
                    /\ job' = [job EXCEPT
                          ![d].pc = IF last THEN "mark" ELSE "gen_zoom",
                          ![d].zoom = IF last THEN z ELSE next,
                          ![d].corrupted_tiles =
                              IF raised THEN @ ELSE @ + streamed.corrupted,
                          ![d].black = IF raised THEN @ ELSE @ \cup streamed.black]
    /\ tileFormat' = IF raised THEN tileFormat
                     ELSE [tileFormat EXCEPT ![d] = IF job[d].gen = "perfect"
                                                    THEN PERFECT_FORMAT ELSE TILE_FORMAT]
    /\ UNCHANGED <<cloudTiles, localPreview, cloudPreview, cloudMeta>>
    /\ JobGenFrame

\* callback(100), generate_tiles returns True, lines 235-240
JobMark(d, ok) ==
    /\ JobAt(d, "mark")
    /\ IF ~Exists(d)
       THEN JobRowGone(d)
       ELSE /\ datasets' = safe_commit(d, [datasets[d] EXCEPT
                               !.processing_status = "completed",
                               !.processing_progress = 100], ok)
            /\ job' = [job EXCEPT ![d].pc = "preview"]
            /\ UNCHANGED <<localTiles, cloudTiles, localPreview, cloudPreview,
                           cloudMeta>>
    /\ JobFrame

\* lines 242-247: tile_gen.generate_preview, failure only logged
JobPreview(d, made) ==
    /\ JobAt(d, "preview")
    /\ localPreview' = IF made THEN localPreview \cup {d} ELSE localPreview
    /\ job' = [job EXCEPT ![d].pc = "disk"]
    /\ UNCHANGED <<datasets, localTiles, cloudTiles, cloudPreview, cloudMeta>>
    /\ JobFrame

\* lines 251-263: the disk-space check, placed after the completed commit
JobDisk(d, disk, ok) ==
    /\ JobAt(d, "disk")
    /\ IF disk = "low"
       THEN IF Exists(d)
            THEN /\ datasets' = safe_commit(d, [datasets[d] EXCEPT
                                    !.processing_status = "failed",
                                    !.processing_progress = 0, !.error = TRUE], ok)
                 /\ job' = JobDone(d, FALSE)
            ELSE /\ job' = JobDone(d, TRUE)
                 /\ UNCHANGED datasets
       ELSE /\ job' = [job EXCEPT ![d].pc = IF cloudEnabled THEN "upload" ELSE "final"]
            /\ UNCHANGED datasets
    /\ UNCHANGED <<localTiles, cloudTiles, localPreview, cloudPreview, cloudMeta>>
    /\ JobFrame

\* CloudStorage.upload_tiles_directory: every file under the tile directory is
\* put under tiles/{id}/; a failed put is counted and logged, never raised; the
\* return value is the number uploaded
upload_tiles_directory(d, failing) == TilesOf(localTiles, d) \ failing

\* the failed puts the model draws: none, all, or the single level-0 tile
UploadFailures(d) ==
    {{}, TilesOf(localTiles, d), {t \in TilesOf(localTiles, d) : t[2] = 0}}

\* lines 268-301: replication of tiles, preview and (demo only) metadata
JobUpload(d, failing, raised, previewPut, ok) ==
    /\ JobAt(d, "upload")
    /\ IF ~Exists(d)
       THEN JobRowGone(d)
       ELSE IF raised
       THEN \* an exception inside the try block before the flag is set
            /\ datasets' = safe_commit(d, [datasets[d] EXCEPT
                               !.r2_upload_error = TRUE], ok)
            /\ job' = [job EXCEPT ![d].pc = "final"]
            /\ UNCHANGED <<localTiles, cloudTiles, localPreview, cloudPreview,
                           cloudMeta>>
       ELSE /\ cloudTiles' = cloudTiles \cup upload_tiles_directory(d, failing)
            /\ datasets' = safe_commit(d, [datasets[d] EXCEPT
                               !.tiles_uploaded_to_cloud = TRUE], ok)
            /\ cloudPreview' = IF d \in localPreview /\ previewPut
                               THEN cloudPreview \cup {d} ELSE cloudPreview
            /\ cloudMeta' = IF datasets[d].is_demo
                            THEN save_dataset_metadata(d, datasets'[d]) ELSE cloudMeta
            /\ job' = [job EXCEPT ![d].pc = "final"]
            /\ UNCHANGED <<localTiles, localPreview>>
    /\ JobFrame

\* line 309: the closing safe_commit, nothing pending
JobFinal(d) ==
    /\ JobAt(d, "final")
    /\ job' = JobDone(d, FALSE)
    /\ UNCHANGED <<datasets, localTiles, cloudTiles, localPreview, cloudPreview,
                   cloudMeta>>
    /\ JobFrame

process_tiles_background(d) ==
    \/ \E mem \in {"ok", "low"}, ok \in BOOLEAN : JobStart(d, mem, ok)
    \/ \E gen \in {"perfect", "simple", "none"}, ok \in BOOLEAN : JobConstruct(d, gen, ok)
    \/ \E opened \in BOOLEAN, ok \in BOOLEAN : JobGenBegin(d, opened, ok)
    \/ \E raised \in BOOLEAN, ok \in BOOLEAN : JobGenZoom(d, raised, {}, ok)
    \/ \E ok \in BOOLEAN : JobMark(d, ok)
    \/ \E made \in BOOLEAN : JobPreview(d, made)
    \/ \E disk \in {"ok", "low"}, ok \in BOOLEAN : JobDisk(d, disk, ok)
    \/ \E failing \in UploadFailures(d), raised \in BOOLEAN, previewPut \in BOOLEAN,
          ok \in BOOLEAN : JobUpload(d, failing, raised, previewPut, ok)
    \/ JobFinal(d)

\* ------------------------------------ PerfectTileGenerator.generate_tiles
GenFrame ==
    UNCHANGED <<datasets, localTiles, cloudTiles, localPreview, cloudPreview,
                cloudMeta, origFile, job, cloudEnabled, prefixDeletes, resp, sweeper,
                chunked_uploads, tempDir, uploadDir, completes, creating,
                tileFormat, tile_cache, pool>>

\* progress_callback(progress)
Callback(run, progress) == [run EXCEPT !.calls = Append(@, progress)]

\* a return of generate_tiles
Returned(run, result) == [run EXCEPT !.pc = "returned", !.result = result]

\* except MemoryError in _generate_in_memory: _generate_streaming with the
\* same callback when rasterio is there, False otherwise
MemoryFallback(run) ==
    IF run.has_rasterio
    THEN [run EXCEPT !.pc = "begin", !.mode = "streaming", !.fell_back = TRUE]
    ELSE Returned(run, "False")

\* in-memory: progress = 10 + int(((zoom + 1) / total_levels) * 85)
InMemoryProgress(zoom, max_zoom) == 10 + ((zoom + 1) * 85) \div (max_zoom + 1)

\* PSB: progress = 50 + int(((max_zoom - zoom) / max_zoom) * 45)
PsbProgress(zoom, max_zoom) == 50 + ((max_zoom - zoom) * 45) \div max_zoom

\* generate_tiles(progress_callback): the mode chosen from the extension, the
\* file size, the free memory and whether rasterio is there (streaming needs
\* it), for an image whose max_zoom is ceil(log2(max_dim / tile_size))
generate_tiles(mode, has_rasterio, max_zoom) ==
    /\ tile_gen.pc \in {"idle", "returned"}
    /\ mode = "streaming" => has_rasterio
    /\ tile_gen' = [NoRun EXCEPT !.pc = "begin", !.mode = mode,
                                 !.has_rasterio = has_rasterio, !.max_zoom = max_zoom]
    /\ GenFrame

\* up to the zoom loop. Streaming (458-478) and in-memory (288-312):
\* callback(5), open or load the image, callback(10); PSB (974-985): open,
\* callback(5). outcome: "ok", "error" (an Exception) or "memory" (MemoryError,
\* which _generate_streaming and _generate_psb catch as an Exception)
GenBegin(outcome) ==
    LET mz == tile_gen.max_zoom
        started == Callback(tile_gen, 5)
    IN
    /\ tile_gen.pc = "begin"
    /\ tile_gen' =
          IF tile_gen.mode = "psb"
          THEN IF outcome # "ok" THEN Returned(tile_gen, "False")
               ELSE [started EXCEPT !.pc = "levels", !.zoom = mz]
          ELSE IF outcome = "memory" /\ tile_gen.mode = "in_memory"
               THEN MemoryFallback(started)
          ELSE IF outcome # "ok" THEN Returned(started, "False")
          ELSE [Callback(started, 10) EXCEPT
                    !.pc = IF mz < 0 THEN "end" ELSE "levels",
                    !.zoom = IF tile_gen.mode = "streaming" THEN mz ELSE 0]
    /\ GenFrame

\* one pass of the zoom loop and its callback. Streaming walks max_zoom..0
\* (480-501), in-memory 0..max_zoom (316-326); PSB does the max-zoom level,
\* callback(50), then max_zoom-1..0 (993-1010). An exception in a level leaves
\* the loop: False, or the streaming fallback for a MemoryError in memory.
GenLevel(outcome) ==
    LET mz == tile_gen.max_zoom
        z == tile_gen.zoom
        mode == tile_gen.mode
        progress == IF mode = "streaming" THEN StreamingProgress(z, mz)
                    ELSE IF mode = "in_memory" THEN InMemoryProgress(z, mz)
                    ELSE IF z = mz THEN 50 ELSE PsbProgress(z, mz)
        last == IF mode = "in_memory" THEN z = mz ELSE z <= 0
    IN
    /\ tile_gen.pc = "levels"
    /\ tile_gen' =
          IF outcome = "memory" /\ mode = "in_memory" THEN MemoryFallback(tile_gen)
          ELSE IF outcome # "ok" THEN Returned(tile_gen, "False")
          ELSE [Callback(tile_gen, progress) EXCEPT
                    !.pc = IF last THEN "end" ELSE "levels",
                    !.zoom = IF mode = "in_memory" THEN z + 1 ELSE z - 1]
    /\ GenFrame

\* after the loop: callback(100), return True
GenEnd ==
    /\ tile_gen.pc = "end"
    /\ tile_gen' = Returned(Callback(tile_gen, 100), "True")
    /\ GenFrame

\* --------------------------------------------------------- dataset handlers
HandlerFrame == UNCHANGED <<job, cloudEnabled, sweepVars, chunkVars, creating>>

\* get_current_user_required: 401 without a valid token, 403 for an inactive user
AuthRequired(caller) ==
    IF caller = "anon" THEN "401" ELSE IF caller = "u0" THEN "403" ELSE "ok"

\* PUT /datasets/{id}: 404, demo 403, owner mismatch 403, then set the name and
\* commit; the UNIQUE constraint on name makes the commit raise (500)
update_dataset(caller, d, name) ==
    LET code == IF AuthRequired(caller) # "ok" THEN AuthRequired(caller)
                ELSE IF ~Exists(d) THEN "404"
                ELSE IF datasets[d].is_demo THEN "403"
                ELSE IF datasets[d].owner_id # caller THEN "403"
                ELSE IF UniqueViolation(d, name) THEN "500"
                ELSE "200"
    IN
    /\ datasets' = IF code = "200" THEN [datasets EXCEPT ![d].name = name] ELSE datasets
    /\ resp' = Resp("update", caller, d, code,
                    code = "200" /\ datasets[d].name # name, FALSE)
    /\ UNCHANGED <<localTiles, cloudTiles, localPreview, cloudPreview, cloudMeta,
                   origFile, prefixDeletes, tileFormat, tile_cache, pool, tile_gen>>
    /\ HandlerFrame

\* DatasetProcessor.delete_dataset: rmtree(tile dir), unlink original, unlink
\* preview, db.delete + commit; any exception is logged and False returned.
\* fault: "none", "rmtree" (the first removal raises), "commit" (the commit
\* raises after the files are gone). No ObjectStore call is made.
DatasetProcessor_delete_dataset(d, fault) ==
    /\ IF fault = "rmtree"
       THEN UNCHANGED <<localTiles, origFile, localPreview>>
       ELSE /\ localTiles' = localTiles \ TilesOf(localTiles, d)
            /\ origFile' = origFile \ {d}
            /\ localPreview' = localPreview \ {d}
    /\ datasets' = IF fault = "none" THEN [datasets EXCEPT ![d] = NoRow] ELSE datasets
    /\ UNCHANGED <<cloudTiles, cloudPreview, cloudMeta, prefixDeletes, tileFormat,
                   tile_cache, pool, tile_gen>>

DeleteFaults == {"none", "rmtree", "commit"}

NothingChanged ==
    UNCHANGED <<datasets, localTiles, cloudTiles, localPreview, cloudPreview,
                cloudMeta, origFile, prefixDeletes, tileFormat, tile_cache, pool, tile_gen>>

\* whether delete_dataset changes anything on disk or in the database
DeleteEffect(d, fault) ==
    \/ fault = "none"
    \/ fault = "commit" /\ (TilesOf(localTiles, d) # {} \/ d \in origFile
                            \/ d \in localPreview)

\* DELETE /datasets/{id}: 404, demo 403, owner mismatch 403, else delete
delete_dataset(caller, d, fault) ==
    LET code == IF AuthRequired(caller) # "ok" THEN AuthRequired(caller)
                ELSE IF ~Exists(d) THEN "404"
                ELSE IF datasets[d].is_demo THEN "403"
                ELSE IF datasets[d].owner_id # caller THEN "403"
                ELSE IF fault = "none" THEN "200" ELSE "500"
    IN
    /\ IF code \in {"200", "500"}
       THEN DatasetProcessor_delete_dataset(d, fault)
       ELSE NothingChanged
    /\ resp' = Resp("delete", caller, d, code,
                    code \in {"200", "500"} /\ DeleteEffect(d, fault), FALSE)
    /\ HandlerFrame

\* verify_admin: get_current_user_required, then username == "Admin"
VerifyAdmin(caller) ==
    IF AuthRequired(caller) # "ok" THEN AuthRequired(caller)
    ELSE IF caller # "admin" THEN "403" ELSE "ok"

\* DELETE /admin/datasets/{id}: 404 (re-wrapped as 500 by the handler's own
\* except clause), else DatasetProcessor.delete_dataset; is_demo is not read
admin_delete_dataset(caller, d, fault) ==
    LET code == IF VerifyAdmin(caller) # "ok" THEN VerifyAdmin(caller)
                ELSE IF ~Exists(d) THEN "500"
                ELSE IF fault = "none" THEN "200" ELSE "500"
        acts == VerifyAdmin(caller) = "ok" /\ Exists(d)
    IN
    /\ IF acts THEN DatasetProcessor_delete_dataset(d, fault) ELSE NothingChanged
    /\ resp' = Resp("admin_delete", caller, d, code,
                    acts /\ DeleteEffect(d, fault), FALSE)
    /\ HandlerFrame

\* DatasetProcessor.reprocess_dataset behind POST /datasets/{id}/reprocess: the
\* route declares no user dependency and is_demo is not read. A missing row
\* ends in an unhandled AttributeError; a missing original file marks the row
\* failed; otherwise the tile directory is removed and regenerated.
reprocess_dataset(caller, d, genOk) ==
    LET row == datasets[d]
        status == IF d \notin origFile \/ ~genOk THEN "failed" ELSE "completed"
        regenerated == IF genOk
                       THEN AllZoomTiles(d, row.max_zoom, row.width, row.height)
                       ELSE {}
    IN
    /\ IF ~Exists(d)
       THEN /\ NothingChanged
            /\ resp' = Resp("reprocess", caller, d, "500", FALSE, FALSE)
       ELSE /\ datasets' = [datasets EXCEPT ![d].processing_status = status]
            /\ localTiles' = IF d \in origFile
                             THEN (localTiles \ TilesOf(localTiles, d)) \cup regenerated
                             ELSE localTiles
            /\ resp' = Resp("reprocess", caller, d,
                            IF status = "completed" THEN "200" ELSE "500",
                            d \in origFile \/ row.processing_status # "failed", FALSE)
            /\ tileFormat' = IF d \in origFile /\ genOk
                             THEN [tileFormat EXCEPT ![d] = TILE_FORMAT] ELSE tileFormat
            /\ UNCHANGED <<cloudTiles, localPreview, cloudPreview, cloudMeta,
                           origFile, prefixDeletes, tile_cache, pool, tile_gen>>
    /\ HandlerFrame

\* ---------------------------------------------------------- chunked upload
\* the endpoints under /datasets/upload/ declare no user dependency
ValidExtension(filename) == filename \in {"scan.tif"}

\* uuid4: an id that was never handed out
FreshUploadIds == {u \in UploadIds : ~chunked_uploads[u].issued}

\* the request register of a chunked upload endpoint: req holds the upload
\* id and what else of the request or the answer the properties read, note
\* what the handler found
ChunkResp(op, d, code, effect, req, note) ==
    [Resp(op, "anon", d, code, effect, FALSE) EXCEPT !.req = req, !.note = note]

ChunkFrame ==
    UNCHANGED <<localTiles, cloudTiles, localPreview, cloudPreview, cloudMeta,
                cloudEnabled, prefixDeletes, sweepVars, creating, tileFormat,
                tile_cache, pool, tile_gen, completes>>

\* POST /datasets/upload/init: extension check, uuid4, mkdir, session dict
init_chunked_upload(filename, filesize, total_chunks) ==
    /\ FreshUploadIds # {}
    /\ LET u == CHOOSE v \in FreshUploadIds : \A w \in FreshUploadIds : v <= w IN
       IF ~ValidExtension(filename)
       THEN /\ resp' = ChunkResp("init", 0, "400", FALSE, <<0, filename>>, "extension")
            /\ UNCHANGED <<chunked_uploads, tempDir>>
       ELSE /\ chunked_uploads' = [chunked_uploads EXCEPT ![u] =
                   [open |-> TRUE, issued |-> TRUE, filename |-> filename,
                    filesize |-> filesize, total_chunks |-> total_chunks,
                    received_chunks |-> {}, reordered |-> FALSE,
                    overwritten |-> FALSE]]
            /\ tempDir' = [tempDir EXCEPT ![u] = NoChunks]
            /\ resp' = ChunkResp("init", 0, "200", TRUE, <<u, filename>>, "opened")
    /\ UNCHANGED <<datasets, origFile, job, uploadDir>>
    /\ ChunkFrame

\* the chunk file opened "ab": a body sent again is added to the one on disk
append_chunk_ab(session, files, i, B) ==
    [session |-> [session EXCEPT !.received_chunks = @ \cup {i}],
     files |-> [files EXCEPT ![i] = IF @ = NoChunk THEN B ELSE @ \o B],
     received |-> Cardinality(session.received_chunks \cup {i})]

\* lines 162-170: the chunk file is opened "wb" and written, the index is
\* added to the set, the size of the set is reported
append_chunk(session, files, i, B) ==
    [session |-> [session EXCEPT !.received_chunks = @ \cup {i}],
     files |-> [files EXCEPT ![i] = B],
     received |-> Cardinality(session.received_chunks \cup {i})]

\* POST /datasets/upload/chunk; written = FALSE: the write raises after the
\* file was opened, which leaves it empty (lines 181-183 answer 500)
upload_chunk(u, i, B, written) ==
    LET session == chunked_uploads[u]
        after == append_chunk(session, tempDir[u], i, B)
        note == IF i \notin session.received_chunks THEN "new"
                ELSE IF tempDir[u][i] = B THEN "again" ELSE "overwrite"
    IN
    /\ IF ~session.open
       THEN /\ resp' = ChunkResp("chunk", 0, "404", FALSE, <<u>>, "unknown")
            /\ UNCHANGED <<chunked_uploads, tempDir>>
       ELSE IF ~written
       THEN /\ tempDir' = [tempDir EXCEPT ![u][i] = ""]
            /\ resp' = ChunkResp("chunk", 0, "500", tempDir[u][i] # "", <<u>>, "io")
            /\ UNCHANGED chunked_uploads
       ELSE /\ chunked_uploads' = [chunked_uploads EXCEPT ![u] =
                   [after.session EXCEPT
                        !.reordered = @ \/ \E j \in session.received_chunks : j > i,
                        !.overwritten = @ \/ note = "overwrite"]]
            /\ tempDir' = [tempDir EXCEPT ![u] = after.files]
            /\ resp' = ChunkResp("chunk", 0, "200", TRUE, <<u, after.received>>, note)
    /\ UNCHANGED <<datasets, origFile, job, uploadDir>>
    /\ ChunkFrame

\* the session left in the dict
CloseSession_Kept(u) == chunked_uploads

\* del chunked_uploads[upload_id]
CloseSession(u) ==
    [chunked_uploads EXCEPT ![u] = [NoSession EXCEPT !.issued = TRUE]]

\* the chunk files read from the highest index down
RECURSIVE ReadChunks_Descending(_, _, _)
ReadChunks_Descending(files, i, n) ==
    IF i >= n THEN <<>> ELSE ReadChunks_Descending(files, i + 1, n) \o <<files[i]>>

\* lines 217-222: the loop over range(total_chunks), chunk i read from
\* chunk_{i:06d} and written to the output file
RECURSIVE ReadChunks(_, _, _)
ReadChunks(files, i, n) ==
    IF i >= n THEN <<>> ELSE <<files[i]>> \o ReadChunks(files, i + 1, n)

\* the first index in range(n) whose chunk file is missing, n if none
RECURSIVE FirstMissing(_, _, _)
FirstMissing(files, i, n) ==
    IF i >= n \/ files[i] = NoChunk THEN i ELSE FirstMissing(files, i + 1, n)

\* the raster an assembled file holds
ChunkedImage == <<100, 80>>

\* POST /datasets/upload/complete; free is the free disk space in chunks
complete_chunked_upload(u, name, free) ==
    LET session == chunked_uploads[u]
        n == session.total_chunks
        readable == FirstMissing(tempDir[u], 0, n)
        \* chunks written before open() or write() raises
        copied == IF readable < free THEN readable ELSE free
        assembled == copied = n
        d == NextId
        req == <<u, name, free, session.reordered, session.overwritten>>
    IN
    IF ~session.open
    THEN /\ resp' = ChunkResp("complete", 0, "404", FALSE, req, "unknown")
         /\ UNCHANGED <<datasets, origFile, job, chunkVars>>
         /\ ChunkFrame
    ELSE IF Cardinality(session.received_chunks) # n
    THEN /\ resp' = ChunkResp("complete", 0, "400", FALSE, req, "missing")
         /\ UNCHANGED <<datasets, origFile, job, chunkVars>>
         /\ ChunkFrame
    ELSE /\ uploadDir' = [uploadDir EXCEPT ![session.filename] =
                [exists |-> TRUE, content |-> ReadChunks(tempDir[u], 0, copied)]]
         /\ tempDir' = [tempDir EXCEPT ![u] = NoChunks]
         /\ chunked_uploads' = CloseSession(u)
         /\ IF ~assembled
            THEN /\ resp' = ChunkResp("complete", 0, "500", TRUE, req, "io")
                 /\ UNCHANGED <<datasets, origFile, job>>
            ELSE IF NameInUse(name)
            THEN /\ resp' = ChunkResp("complete", 0, "400", TRUE, req, "name")
                 /\ UNCHANGED <<datasets, origFile, job>>
            ELSE /\ d \in DatasetIds
                 /\ job[d].pc \in {"none", "done"}
                 /\ datasets' = [datasets EXCEPT ![d] =
                        [create_dataset_entry(d, name, ChunkedImage) EXCEPT
                             !.original_file_path = session.filename]]
                 /\ origFile' = origFile \cup {d}
                 /\ job' = [job EXCEPT ![d] =
                        [NoJob EXCEPT !.pc = "start", !.size = ChunkedImage]]
                 /\ resp' = ChunkResp("complete", d, "200", TRUE, req, "created")
         /\ ChunkFrame

\* --- complete_chunked_upload step by step: the handler is a coroutine that
\* gives way at every await of aiofiles, so that two calls interleave

\* the bytes of a sparse region no writer has filled
Hole == "hole"

\* write(content) through a descriptor whose offset is after i - 1 chunks
WriteAt(content, i, B) ==
    IF i <= Len(content)
    THEN [content EXCEPT ![i] = B]
    ELSE content \o [j \in 1..(i - 1 - Len(content)) |-> Hole] \o <<B>>

CompleteFrame ==
    UNCHANGED <<localTiles, cloudTiles, localPreview, cloudPreview, cloudMeta,
                cloudEnabled, prefixDeletes, sweepVars, creating, tileFormat,
                tile_cache, pool, tile_gen>>

\* lines 197-215: the session is looked up and its chunk count checked, then
\* the output file is opened "wb", which truncates it
complete_begin(c, u, name) ==
    LET session == chunked_uploads[u]
        req == <<u, name>>
    IN
    /\ completes[c].pc = "idle"
    /\ IF ~session.open
       THEN /\ resp' = ChunkResp("complete_call", 0, "404", FALSE, req, "unknown")
            /\ UNCHANGED <<uploadDir, completes>>
       ELSE IF Cardinality(session.received_chunks) # session.total_chunks
       THEN /\ resp' = ChunkResp("complete_call", 0, "400", FALSE, req, "missing")
            /\ UNCHANGED <<uploadDir, completes>>
       ELSE /\ uploadDir' = [uploadDir EXCEPT ![session.filename] =
                   [exists |-> TRUE, content |-> <<>>]]
            /\ completes' = [completes EXCEPT ![c] =
                   [pc |-> "copy", u |-> u, name |-> name, session |-> session,
                    i |-> 0]]
            /\ resp' = ChunkResp("complete_call", 0, "", TRUE, req, "opened")
    /\ UNCHANGED <<datasets, origFile, job, chunked_uploads, tempDir>>
    /\ CompleteFrame

\* lines 216-220, one pass of the loop: chunk i is read and written to the
\* output file; a chunk file that is gone raises, and the generic handler
\* (lines 253-259) removes the session if it is still there
complete_copy(c) ==
    LET call == completes[c]
        u == call.u
        f == call.session.filename
        req == <<u, call.name>>
    IN
    /\ call.pc = "copy"
    /\ call.i < call.session.total_chunks
    /\ IF tempDir[u][call.i] = NoChunk
       THEN /\ tempDir' = [tempDir EXCEPT ![u] = NoChunks]
            /\ chunked_uploads' = IF chunked_uploads[u].open
                                  THEN CloseSession(u) ELSE chunked_uploads
            /\ completes' = [completes EXCEPT ![c] = NoComplete]
            /\ resp' = ChunkResp("complete_call", 0, "500", TRUE, req, "io")
            /\ UNCHANGED uploadDir
       ELSE /\ uploadDir' = [uploadDir EXCEPT ![f].content =
                   WriteAt(@, call.i + 1, tempDir[u][call.i])]
            /\ completes' = [completes EXCEPT ![c].i = @ + 1]
            /\ resp' = ChunkResp("complete_call", 0, "", TRUE, req, "copied")
            /\ UNCHANGED <<chunked_uploads, tempDir>>
    /\ UNCHANGED <<datasets, origFile, job>>
    /\ CompleteFrame

\* lines 222-246, run without an await in between: rmtree(temp_dir), del
\* chunked_uploads[upload_id] (a KeyError when the other call was first, which
\* ends in the generic 500), create_dataset_entry and add_task
complete_finish(c) ==
    LET call == completes[c]
        u == call.u
        f == call.session.filename
        d == NextId
        req == <<u, call.name>>
    IN
    /\ call.pc = "copy"
    /\ call.i = call.session.total_chunks
    /\ tempDir' = [tempDir EXCEPT ![u] = NoChunks]
    /\ completes' = [completes EXCEPT ![c] = NoComplete]
    /\ IF ~chunked_uploads[u].open
       THEN /\ resp' = ChunkResp("complete_call", 0, "500", FALSE, req, "KeyError")
            /\ UNCHANGED <<datasets, origFile, job, chunked_uploads>>
       ELSE /\ chunked_uploads' = CloseSession(u)
            /\ IF NameInUse(call.name)
               THEN /\ resp' = ChunkResp("complete_call", 0, "400", TRUE, req, "name")
                    /\ UNCHANGED <<datasets, origFile, job>>
               ELSE /\ d \in DatasetIds
                    /\ job[d].pc \in {"none", "done"}
                    /\ datasets' = [datasets EXCEPT ![d] =
                           [create_dataset_entry(d, call.name, ChunkedImage) EXCEPT
                                !.original_file_path = f]]
                    /\ origFile' = origFile \cup {d}
                    /\ job' = [job EXCEPT ![d] =
                           [NoJob EXCEPT !.pc = "start", !.size = ChunkedImage]]
                    /\ resp' = ChunkResp("complete_call", d, "200", TRUE, req, "created")
    /\ UNCHANGED uploadDir
    /\ CompleteFrame

\* DELETE /datasets/upload/{upload_id}
cancel_chunked_upload(u) ==
    /\ IF ~chunked_uploads[u].open
       THEN /\ resp' = ChunkResp("cancel", 0, "404", FALSE, <<u>>, "unknown")
            /\ UNCHANGED <<chunked_uploads, tempDir>>
       ELSE /\ tempDir' = [tempDir EXCEPT ![u] = NoChunks]
            /\ chunked_uploads' = CloseSession(u)
            /\ resp' = ChunkResp("cancel", 0, "200", TRUE, <<u>>, "cancelled")
    /\ UNCHANGED <<datasets, origFile, job, uploadDir>>
    /\ ChunkFrame

\* ------------------------------------------------------------- tile routes
\* get_current_user: None without a valid token and for an inactive user
CurrentUser(caller) == IF caller \in ActiveUsers THEN caller ELSE "anon"

\* the access check shared by get_tile and get_tiles_batch
TileAccess(caller, d) ==
    IF ~Exists(d) THEN "404"
    ELSE IF datasets[d].is_demo THEN "ok"
    ELSE IF CurrentUser(caller) = "anon" THEN "401"
    ELSE IF datasets[d].owner_id # caller THEN "403"
    ELSE "ok"

\* the keys of an OrderedDict and the value under a key
CacheKeys(cache) == {cache[k][1] : k \in DOMAIN cache}
CacheData(cache, key) == cache[CHOOSE k \in DOMAIN cache : cache[k][1] = key][2]

\* OrderedDict.move_to_end(key)
move_to_end(cache, key) ==
    LET IsOther(e) == e[1] # key
    IN Append(SelectSeq(cache, IsOther), <<key, CacheData(cache, key)>>)

\* the assignment results[key] = data of a dict kept as a set of pairs
DictSet(dict, key, data) == {e \in dict : e[1] # key} \cup {<<key, data>>}

\* tile_cache.get_cached_tile: a hit needs the cache enabled (USE_S3) and the
\* key id/z/x/y.format
Cached(d, z, x, y, format) ==
    cloudEnabled /\ <<d, z, x, y, format>> \in CacheKeys(tile_cache)

\* a lookup that never finds the key
get_cached_tile_Miss(cache, key) == [hit |-> FALSE, data |-> None, cache |-> cache]

\* R2TileCache.get_cached_tile, the section under cache_lock: a hit moves the
\* key to the end and returns its bytes
get_cached_tile(cache, key) ==
    IF cloudEnabled /\ key \in CacheKeys(cache)
    THEN [hit |-> TRUE, data |-> CacheData(cache, key), cache |-> move_to_end(cache, key)]
    ELSE [hit |-> FALSE, data |-> None, cache |-> cache]

\* the assignment tile_cache[key] = data: a key already present keeps its
\* place, a new key goes to the end
SetItem(cache, key, data) ==
    IF key \in CacheKeys(cache)
    THEN LET at == CHOOSE k \in DOMAIN cache : cache[k][1] = key
         IN SubSeq(cache, 1, at - 1) \o <<<<key, data>>>>
                \o SubSeq(cache, at + 1, Len(cache))
    ELSE Append(cache, <<key, data>>)

\* cache_tile with no eviction
cache_tile_Unbounded(cache, key, data) == SetItem(cache, key, data)

\* R2TileCache.cache_tile: nothing when the cache is disabled or the data is
\* empty; under cache_lock, at capacity the oldest entry is popped (whether or
\* not the key is already present), then tile_cache[key] = data, which keeps
\* the place of a key already present
cache_tile(cache, key, data) ==
    LET kept == IF Len(cache) >= max_cache_size THEN Tail(cache) ELSE cache
    IN
    IF ~cloudEnabled \/ data = None THEN cache
    ELSE SetItem(kept, key, data)

\* cloud_storage.tile_exists: head_object of tiles/{id}/{z}/{x}/{y}.{format}.
\* upload_tiles_directory copies the tile files under their names, so the
\* objects of an id carry the extension of its tile files; keys left behind by
\* an earlier dataset of the same id are taken to carry it too.
tile_exists(d, z, x, y, format) ==
    cloudEnabled /\ <<d, z, x, y>> \in cloudTiles /\ tileFormat[d] = format

\* the alternative get_tile tries in the ObjectStore: png for jpg, jpg for png,
\* none for webp
AlternateFormat(format) ==
    IF format = "jpg" THEN "png" ELSE IF format = "png" THEN "jpg" ELSE "none"

\* the file tile_base/z/x/y.format
LocalTile(d, z, x, y, format) ==
    <<d, z, x, y>> \in localTiles /\ tileFormat[d] = format

\* fallback_formats of get_tile, in the order they are tried
FallbackFormats(format) ==
    IF format = "jpg" THEN <<"png", "webp">>
    ELSE IF format = "png" THEN <<"jpg", "jpeg", "webp">>
    ELSE <<"png", "jpg", "jpeg">>

\* the first fallback format whose file exists, "none" when the loop runs out
FirstFallback(d, z, x, y, format) ==
    LET fb == FallbackFormats(format)
        hits == {k \in 1..Len(fb) : LocalTile(d, z, x, y, fb[k])}
    IN
    IF hits = {} THEN "none"
    ELSE fb[CHOOSE k \in hits : \A j \in hits : k <= j]

\* an answer of get_tile: status, X-Tile-Source or the branch that answered,
\* the format of the bytes sent and the X-Tile-Format header ("none": absent)
TileAnswer(code, source, served, header) ==
    [code |-> code, source |-> source, served |-> served, header |-> header]

\* GET /api/tiles/{id}/{z}/{x}/{y}.{format}: access, status, memory cache, the
\* ObjectStore branch, and only then the zoom check and the local tile tree.
\* In the ObjectStore branch a failed get_object is followed by get_tile_url
\* with one positional argument too many, a TypeError (500).
get_tile(caller, d, z, x, y, format) ==
    LET flag == datasets[d].tiles_uploaded_to_cloud
        alt == AlternateFormat(format)
        r2format == IF flag \/ tile_exists(d, z, x, y, format) THEN format
                    ELSE IF alt # "none" /\ tile_exists(d, z, x, y, alt) THEN alt
                    ELSE "none"
        tiles_on_r2 == r2format # "none"
        local == IF LocalTile(d, z, x, y, format) THEN format
                 ELSE FirstFallback(d, z, x, y, format)
        a == IF TileAccess(caller, d) # "ok"
                 THEN TileAnswer(TileAccess(caller, d), "", "none", "none")
             ELSE IF datasets[d].processing_status \notin {"completed", "processing"}
                 THEN TileAnswer("503", "", "none", "none")
             ELSE IF Cached(d, z, x, y, format)
                 THEN TileAnswer("200", "memory-cache", format, "none")
             ELSE IF cloudEnabled /\ tiles_on_r2
                 THEN IF tile_exists(d, z, x, y, r2format)
                      THEN TileAnswer("200", "r2", r2format, "none")
                      ELSE TileAnswer("500", "r2", "none", "none")
             ELSE IF z > datasets[d].max_zoom
                 THEN TileAnswer("400", "local", "none", "none")
             ELSE IF local # "none"
                 THEN TileAnswer("200", "local", local, local)
             ELSE TileAnswer("404", "local", "none", "none")
    IN
    /\ resp' = [Resp("get_tile", caller, d, a.code, FALSE, a.code = "200")
                   EXCEPT !.req = <<z, x, y, format, a.served, a.header>>,
                          !.note = a.source]
    /\ tile_cache' = IF a.source = "memory-cache"
                     THEN get_cached_tile(tile_cache, <<d, z, x, y, format>>).cache
                     ELSE tile_cache
    /\ UNCHANGED <<datasets, localTiles, cloudTiles, localPreview, cloudPreview,
                   cloudMeta, origFile, prefixDeletes, tileFormat, pool, tile_gen>>
    /\ HandlerFrame

\* tiles[:100]: the keys of a batch request that are looked at
BATCH_LIMIT == 100

\* the slice tiles[:limit]
FirstKeys(tiles, limit) ==
    SubSeq(tiles, 1, IF Len(tiles) < limit THEN Len(tiles) ELSE limit)

\* a fetch that hands back bytes whatever the ObjectStore answers
FetchResult_Always(key, data) == data

\* what fetch_tile_sync gets from the public URL of a key: the bytes of the
\* object, None when there is no such object
FetchResult(key, data) ==
    IF tile_exists(key[1], key[2], key[3], key[4], key[5]) THEN data ELSE None

\* one turn of the first loop of fetch_tiles_parallel_sync: a hit goes to
\* results (a dict, kept in the order of its keys), a miss to tiles_to_fetch
LookupOne(st, key) ==
    LET g == get_cached_tile(st.cache, key)
    IN IF g.hit
       THEN [st EXCEPT !.cache = g.cache, !.results = SetItem(@, key, g.data)]
       ELSE [st EXCEPT !.to_fetch = Append(@, key)]

\* the turns for tiles[lo..hi] in the order of the list. The range is walked
\* in two halves, and the state after the first half is looked at before the
\* second is begun, so that it is a value and not a pending computation.
RECURSIVE LookupAll(_, _, _, _)
LookupAll(st, tiles, lo, hi) ==
    IF lo > hi THEN st
    ELSE IF lo = hi THEN LookupOne(st, tiles[lo])
    ELSE LET mid == (lo + hi) \div 2
             half == LookupAll(st, tiles, lo, mid)
         IN IF Len(half.cache) <= max_cache_size
            THEN LookupAll(half, tiles, mid + 1, hi) ELSE half

\* one worker task _fetch_and_cache_sync: fetch, cache_tile when there is
\* data, results[key] = data
StoreOne(st, key, data) ==
    LET got == FetchResult(key, data)
    IN [st EXCEPT !.cache = cache_tile(@, key, got),
                  !.results = SetItem(@, key, got)]

\* the worker tasks of keys[lo..hi] finishing in the order of keys
RECURSIVE StoreAll(_, _, _, _, _)
StoreAll(st, keys, lo, hi, data) ==
    IF lo > hi THEN st
    ELSE IF lo = hi THEN StoreOne(st, keys[lo], data)
    ELSE LET mid == (lo + hi) \div 2
             half == StoreAll(st, keys, lo, mid, data)
         IN IF Len(half.cache) <= max_cache_size
            THEN StoreAll(half, keys, mid + 1, hi, data) ELSE half

Reverse(seq) == [k \in 1..Len(seq) |-> seq[Len(seq) + 1 - k]]

\* R2TileCache.fetch_tiles_parallel_sync run with no other thread at the
\* cache: the lookups, then the worker tasks, which finish in the order they
\* were submitted or in the reverse order
fetch_tiles_parallel_sync(cache, tiles, reversed, data) ==
    IF ~cloudEnabled THEN [cache |-> cache, results |-> {}, fetches |-> 0]
    ELSE LET looked == LookupAll([cache |-> cache, results |-> <<>>, to_fetch |-> <<>>],
                                 tiles, 1, Len(tiles))
             keys == IF reversed THEN Reverse(looked.to_fetch) ELSE looked.to_fetch
             stored == StoreAll(looked, keys, 1, Len(keys), data)
         IN [cache |-> stored.cache, results |-> Range(stored.results),
             fetches |-> Len(looked.to_fetch)]

\* GET /api/tiles/{id}/batch?tiles=z/x/y.fmt: access check only; the first
\* BATCH_LIMIT keys of the list go to fetch_tiles_parallel_sync, the answer
\* carries the keys that have data and is a 200 whatever the length of the
\* list. req: the list sent, the tiles returned, the network fetches made.
get_tiles_batch(caller, d, tiles, reversed, data) ==
    LET code == IF TileAccess(caller, d) # "ok" THEN TileAccess(caller, d) ELSE "200"
        first == FirstKeys(tiles, BATCH_LIMIT)
        tile_list == [k \in 1..Len(first) |->
                         <<d, first[k][1], first[k][2], first[k][3], first[k][4]>>]
        f == IF code = "200"
             THEN fetch_tiles_parallel_sync(tile_cache, tile_list, reversed, data)
             ELSE [cache |-> tile_cache, results |-> {}, fetches |-> 0]
        tile_data == {r \in f.results : r[2] # None}
    IN
    /\ resp' = [Resp("get_tiles_batch", caller, d, code, FALSE, tile_data # {})
                   EXCEPT !.req = <<tiles, tile_data, f.fetches>>]
    /\ tile_cache' = f.cache
    /\ UNCHANGED <<datasets, localTiles, cloudTiles, localPreview, cloudPreview,
                   cloudMeta, origFile, prefixDeletes, tileFormat, pool, tile_gen>>
    /\ HandlerFrame

\* ------------------------------------------------ tile cache under threads
\* a step of a thread at the cache outside a request handler's own step
CacheResp(op) == [NoResp EXCEPT !.op = op]
CacheFrame ==
    /\ UNCHANGED <<datasets, localTiles, cloudTiles, localPreview, cloudPreview,
                   cloudMeta, origFile, prefixDeletes, tileFormat, tile_gen>>
    /\ HandlerFrame

\* fetch_tiles_parallel_sync entered by a thread: returns {} when disabled
fetch_begin(c, tiles) ==
    /\ pool[c].pc = "idle" /\ cloudEnabled /\ tiles # <<>>
    /\ pool' = [pool EXCEPT ![c] = [IdleCall EXCEPT !.pc = "lookup", !.tiles = tiles,
                                                    !.i = 1]]
    /\ resp' = CacheResp("fetch_begin")
    /\ UNCHANGED tile_cache
    /\ CacheFrame

\* one turn of its first loop: get_cached_tile takes and releases cache_lock
fetch_lookup(c) ==
    LET call == pool[c]
        key == call.tiles[call.i]
        g == get_cached_tile(tile_cache, key)
    IN
    /\ call.pc = "lookup"
    /\ tile_cache' = g.cache
    /\ pool' = [pool EXCEPT ![c] =
                   [call EXCEPT !.i = @ + 1,
                                !.pc = IF call.i = Len(call.tiles) THEN "wait" ELSE "lookup",
                                !.results = IF g.hit THEN DictSet(@, key, g.data) ELSE @,
                                !.tasks = IF g.hit THEN @ ELSE @ \cup {call.i}]]
    /\ resp' = CacheResp("fetch_lookup")
    /\ CacheFrame

\* one worker task _fetch_and_cache_sync of the call: fetch_tile_sync (ok:
\* the request gets through), then cache_tile under cache_lock
fetch_worker(c, k, data, ok) ==
    LET call == pool[c]
        key == call.tiles[k]
        got == IF ok THEN FetchResult(key, data) ELSE None
    IN
    /\ call.pc = "wait" /\ k \in call.tasks
    /\ tile_cache' = cache_tile(tile_cache, key, got)
    /\ pool' = [pool EXCEPT ![c] =
                   [call EXCEPT !.tasks = @ \ {k},
                                !.results = DictSet(@, key, got),
                                !.fetches = @ + 1]]
    /\ resp' = [CacheResp("fetch_worker") EXCEPT !.req = <<key, got>>]
    /\ CacheFrame

\* every future collected: the call returns results
fetch_return(c) ==
    /\ pool[c].pc = "wait" /\ pool[c].tasks = {}
    /\ pool' = [pool EXCEPT ![c] = IdleCall]
    /\ resp' = [CacheResp("fetch_return")
                   EXCEPT !.req = <<pool[c].tiles, pool[c].results, pool[c].fetches>>]
    /\ UNCHANGED tile_cache
    /\ CacheFrame

\* R2TileCache.clear_cache(dataset_id) under cache_lock; 0 stands for None
clear_cache(dataset_id) ==
    LET IsOther(e) == e[1][1] # dataset_id
    IN
    /\ tile_cache' = IF dataset_id = 0 THEN <<>> ELSE SelectSeq(tile_cache, IsOther)
    /\ resp' = CacheResp("clear_cache")
    /\ UNCHANGED pool
    /\ CacheFrame

\* app.mount("/tiles", StaticFiles(TILES_DIR)): GET /tiles/{id}/{z}/{x}/{y}.jpg
\* is answered from the tile tree; no dependency reads the token or the row
static_tiles(caller, d) ==
    LET found == TilesOf(localTiles, d) # {}
    IN
    /\ resp' = Resp("static_tiles", caller, d, IF found THEN "200" ELSE "404",
                    FALSE, found)
    /\ NothingChanged
    /\ HandlerFrame

\* --------------------------------------------------- startup reconciliation
\* the row sync_datasets_from_cloud builds from a metadata document: the
\* fields of the document, is_demo=True, owner_id=None, expires_at=None
SyncedRow(doc) ==
    [doc EXCEPT !.exists = TRUE, !.is_demo = TRUE, !.owner_id = NoOwner,
                !.has_expiry = FALSE, !.expired = FALSE]

\* the rows are added to one session and committed once after the loop: a
\* name another row holds (UNIQUE), in the table or earlier in the batch,
\* raises IntegrityError and the whole batch is lost
SyncBatchFails(missing) ==
    \E m \in missing :
        \/ \E e \in DatasetIds : Exists(e) /\ datasets[e].name = m[2].name
        \/ \E o \in missing \ {m} : o[2].name = m[2].name

\* init_db at process start: sync_datasets_from_cloud lists the metadata
\* documents and inserts those whose id has no row; any exception is logged
\* and swallowed. The process starts with no job, no session, an empty tile
\* cache and a sleeping sweeper; files and the database are as they were left.
sync_datasets_from_cloud ==
    LET cloud_datasets == IF cloudEnabled THEN cloudMeta ELSE {}
        missing == {m \in cloud_datasets : ~Exists(m[1])}
        failed == SyncBatchFails(missing)
    IN
    /\ datasets' = [d \in DatasetIds |->
                        IF ~failed /\ d \in MetaIds(missing)
                        THEN SyncedRow((CHOOSE m \in missing : m[1] = d)[2])
                        ELSE datasets[d]]
    /\ resp' = [NoResp EXCEPT !.op = "sync",
                              !.code = IF failed THEN "failed" ELSE "ok",
                              !.effect = ~failed /\ missing # {},
                              !.req = <<MetaIds(missing)>>]
    /\ job' = [d \in DatasetIds |-> NoJob]
    /\ sweeper' = Sleeping
    /\ chunked_uploads' = [u \in UploadIds |-> [chunked_uploads[u] EXCEPT !.open = FALSE]]
    /\ completes' = [c \in Calls |-> NoComplete]
    /\ tile_cache' = <<>>
    /\ pool' = [c \in Calls |-> IdleCall]
    /\ tile_gen' = NoRun
    /\ creating' = {}
    /\ UNCHANGED <<localTiles, cloudTiles, localPreview, cloudPreview, cloudMeta,
                   origFile, prefixDeletes, cloudEnabled, tempDir, uploadDir,
                   tileFormat>>

\* ------------------------------------------------------------ expiry sweeper
\* the filter with the test for a missing expires_at turned round
ExpiredDatasets_IsNone ==
    {d \in DatasetIds : Exists(d) /\ ~datasets[d].is_demo /\ ~datasets[d].has_expiry}

\* the filter of cleanup_expired_datasets
ExpiredDatasets ==
    {d \in DatasetIds : Exists(d) /\ ~datasets[d].is_demo
                        /\ datasets[d].has_expiry /\ datasets[d].expired}

\* delete_dataset_files: local tile directory, original file and local preview
\* are removed; with the ObjectStore enabled the call of cloud_storage.delete_tiles
\* (no such attribute) raises, so no ObjectStore key is removed and False is
\* returned
delete_dataset_files(d) ==
    /\ localTiles' = localTiles \ TilesOf(localTiles, d)
    /\ origFile' = origFile \ {d}
    /\ localPreview' = localPreview \ {d}
    /\ UNCHANGED <<cloudTiles, cloudPreview, cloudMeta, prefixDeletes, tileFormat,
                   tile_cache, pool, tile_gen>>

\* one iteration of the loop of cleanup_expired_datasets: files, then
\* db.delete + commit; a failing commit is rolled back and the loop goes on
cleanup_expired_datasets(d, ok) ==
    /\ sweeper.pc = "sleep"
    /\ d \in ExpiredDatasets
    /\ delete_dataset_files(d)
    /\ datasets' = IF ok THEN [datasets EXCEPT ![d] = NoRow] ELSE datasets
    /\ resp' = Resp("sweep", "anon", d, IF ok THEN "deleted" ELSE "rollback",
                    TRUE, FALSE)
    /\ HandlerFrame

\* cleanup_scheduler runs in a thread of its own, so the handlers and the job
\* run between the steps of a pass.
\* cleanup_expired_datasets lines 70-84: the query that opens a pass; todo is
\* the list of Dataset objects it returns, loaded tells that their attributes
\* are still the ones the query read (no commit or rollback has expired them)
SweepQuery ==
    /\ sweeper.pc = "sleep"
    /\ sweeper' = [pc |-> "loop", todo |-> ExpiredDatasets, loaded |-> TRUE,
                   log |-> <<>>]
    /\ NothingChanged
    /\ UNCHANGED <<job, cloudEnabled, chunkVars, creating, resp>>

\* lines 86-101: the loop body for one object of the list. DELETE goes by
\* primary key, so it removes whichever row holds the id now. When no row
\* holds it, the flush raises StaleDataError (rolled back, the loop goes on),
\* and the files are removed only if the object's attributes are still loaded.
SweepIter(d, ok) ==
    LET gone == ~Exists(d)
        deleted == ~gone /\ ok
    IN
    /\ sweeper.pc = "loop"
    /\ d \in sweeper.todo
    /\ IF gone /\ ~sweeper.loaded
       THEN UNCHANGED <<localTiles, origFile, localPreview, cloudTiles, cloudPreview,
                        cloudMeta, prefixDeletes, tileFormat, tile_cache, pool, tile_gen>>
       ELSE delete_dataset_files(d)
    /\ datasets' = IF deleted THEN [datasets EXCEPT ![d] = NoRow] ELSE datasets
    /\ resp' = Resp("sweep", "anon", d, IF deleted THEN "deleted" ELSE "rollback",
                    ~gone \/ sweeper.loaded, FALSE)
    /\ sweeper' = [sweeper EXCEPT !.todo = @ \ {d}, !.loaded = FALSE,
                                  !.log = Append(@, <<d, deleted>>)]
    /\ UNCHANGED <<job, cloudEnabled, chunkVars, creating>>

\* lines 103-112 and cleanup_scheduler lines 126-130: the pass ends, the
\* scheduler sleeps until the next one
SweepEnd ==
    /\ sweeper.pc = "loop"
    /\ sweeper.todo = {}
    /\ sweeper' = Sleeping
    /\ NothingChanged
    /\ UNCHANGED <<job, cloudEnabled, chunkVars, creating, resp>>

cleanup_scheduler ==
    \/ SweepQuery
    \/ \E d \in DatasetIds, ok \in BOOLEAN : SweepIter(d, ok)
    \/ SweepEnd

\* ---------------------------------------------------------------- the system
\* the tiles of the max-zoom level of the image the job of d works on
TopZoomTiles(d) ==
    ZoomTiles(d, JobMaxZoom(d), JobMaxZoom(d), job[d].size[1], job[d].size[2])

\* the (z, x) of the tile requests drawn; y is 0
TileRequests == {<<0, 0>>, <<1, 1>>, <<3, 0>>}

\* the lengths of the batch requests drawn: one key, the limit, one more
\* the modes of generate_tiles and how a step of it can end
GenModes == {"streaming", "in_memory", "psb"}
GenOutcomes == {"ok", "error", "memory"}

\* the keys of one request to the cache: up to MaxKeys different tiles of the
\* demo dataset and of a tile no dataset has, as the route gets them
\* (z, x, y, format) and as the cache gets them (id first)
MaxKeys == 2
RequestKeys == {<<0, 0, 0, "jpg">>, <<1, 0, 0, "jpg">>, <<1, 1, 0, "jpg">>,
                <<3, 0, 0, "jpg">>}
BatchLists ==
    {tiles \in UNION {[1..n -> RequestKeys] : n \in 1..MaxKeys} :
         \A j, k \in DOMAIN tiles : j # k => tiles[j] # tiles[k]}
KeyLists ==
    {[k \in DOMAIN tiles |-> <<1, tiles[k][1], tiles[k][2], tiles[k][3], tiles[k][4]>>] :
         tiles \in BatchLists}

BatchSizes == {1, BATCH_LIMIT, BATCH_LIMIT + 1}

\* a batch request of n keys: the tile 0/0/0.jpg n - 1 times, then last
BatchOf(n, last) == [k \in 1..n |-> IF k = n THEN last ELSE <<0, 0, 0, "jpg">>]

Next ==
    \/ \E caller \in Callers, name \in Names, size \in ImageSizes :
           upload_dataset(caller, name, size)
    \/ \E caller \in Callers, name \in Names, raised \in MetadataErrors :
           upload_unreadable(caller, name, raised)
    \/ \E d \in DatasetIds : Expire(d)
    \/ \E d \in DatasetIds : process_tiles_background(d)
    \/ \E caller \in Callers, d \in DatasetIds, name \in Names :
           update_dataset(caller, d, name)
    \/ \E caller \in Callers, d \in DatasetIds, fault \in DeleteFaults :
           delete_dataset(caller, d, fault)
    \/ \E caller \in Callers, d \in DatasetIds, fault \in DeleteFaults :
           admin_delete_dataset(caller, d, fault)
    \/ \E caller \in Callers, d \in DatasetIds, genOk \in BOOLEAN :
           reprocess_dataset(caller, d, genOk)
    \/ \E caller \in Callers, d \in DatasetIds, zx \in TileRequests,
          format \in Formats :
           get_tile(caller, d, zx[1], zx[2], 0, format)
    \/ \E caller \in Callers, d \in DatasetIds, n \in BatchSizes,
          zx \in TileRequests, format \in Formats, reversed \in BOOLEAN,
          data \in TileData :
           get_tiles_batch(caller, d, BatchOf(n, <<zx[1], zx[2], 0, format>>),
                           reversed, data)
    \/ \E caller \in Callers, d \in DatasetIds, tiles \in BatchLists,
          reversed \in BOOLEAN, data \in TileData :
           get_tiles_batch(caller, d, tiles, reversed, data)
    \/ \E c \in Calls, tiles \in KeyLists : fetch_begin(c, tiles)
    \/ \E c \in Calls : fetch_lookup(c)
    \/ \E c \in Calls, k \in 1..MaxKeys, data \in TileData, ok \in BOOLEAN :
           fetch_worker(c, k, data, ok)
    \/ \E c \in Calls : fetch_return(c)
    \/ \E dataset_id \in {0} \cup DatasetIds : clear_cache(dataset_id)
    \/ \E caller \in Callers, d \in DatasetIds : static_tiles(caller, d)
    \/ \E d \in DatasetIds, ok \in BOOLEAN : cleanup_expired_datasets(d, ok)
    \/ cleanup_scheduler
    \/ \E filename \in FileNames, n \in 1..MaxChunks :
           init_chunked_upload(filename, n, n)
    \/ \E u \in UploadIds, i \in ChunkIndexes, B \in Contents, written \in BOOLEAN :
           upload_chunk(u, i, B, written)
    \/ \E u \in UploadIds, name \in Names, free \in FreeSpace :
           complete_chunked_upload(u, name, free)
    \/ \E u \in UploadIds : cancel_chunked_upload(u)
    \/ \E c \in Calls, u \in UploadIds, name \in Names : complete_begin(c, u, name)
    \/ \E c \in Calls : complete_copy(c)
    \/ \E c \in Calls : complete_finish(c)
    \/ \E caller \in Callers, name \in Names : create_check(caller, name)
    \/ \E caller \in Callers, name \in Names, size \in ImageSizes :
           create_insert(caller, name, size)
    \/ \E d \in DatasetIds :
           /\ JobAt(d, "gen_zoom")
           /\ \E failing \in SUBSET TopZoomTiles(d) :
                  JobGenZoom(d, FALSE, failing, TRUE)
    \/ sync_datasets_from_cloud
    \/ \E mode \in GenModes, has_rasterio \in BOOLEAN, max_zoom \in -1..MaxGenZoom :
           generate_tiles(mode, has_rasterio, max_zoom)
    \/ \E outcome \in GenOutcomes : GenBegin(outcome)
    \/ \E outcome \in GenOutcomes : GenLevel(outcome)
    \/ GenEnd

Spec == Init /\ [][Next]_vars

\* Spec is the whole system. The three specifications below are the parts of
\* it that are explored exhaustively: each of their steps is a step of Next,
\* so each of their behaviours is a behaviour of Spec.

\* The ingestion pipeline and the sweeper: uploads, the background job with
\* every fault it can meet, expiry and the sweeper's deletions.
NextJob ==
    \/ \E caller \in Callers, name \in Names, size \in ImageSizes :
           upload_dataset(caller, name, size)
    \/ \E d \in DatasetIds : process_tiles_background(d)
    \/ \E d \in DatasetIds : Expire(d)
    \/ \E d \in DatasetIds, ok \in BOOLEAN : cleanup_expired_datasets(d, ok)

SpecJob == Init /\ [][NextJob]_vars

\* a run of the job that meets no fault
JobRun(d) ==
    \/ JobStart(d, "ok", TRUE)
    \/ JobConstruct(d, "perfect", TRUE)
    \/ JobGenBegin(d, TRUE, TRUE)
    \/ JobGenZoom(d, FALSE, {}, TRUE)
    \/ JobMark(d, TRUE)
    \/ JobPreview(d, TRUE)
    \/ JobDisk(d, "ok", TRUE)
    \/ JobUpload(d, {}, FALSE, TRUE, TRUE)
    \/ JobFinal(d)

\* one upload into the last id, by a caller other than the admin
UploadOnce(caller) ==
    /\ NextId = MaxDatasets
    /\ job[NextId].pc = "none"
    /\ upload_dataset(caller, "bigmap", <<513, 300>>)

\* The dataset handlers around a fault-free job: every caller, every handler
\* that changes a dataset.
NextApi ==
    \/ \E caller \in Callers \ {"admin"} : UploadOnce(caller)
    \/ \E d \in DatasetIds : JobRun(d)
    \/ \E caller \in Callers, d \in DatasetIds, name \in Names :
           update_dataset(caller, d, name)
    \/ \E caller \in Callers, d \in DatasetIds, fault \in DeleteFaults :
           delete_dataset(caller, d, fault)
    \/ \E caller \in Callers, d \in DatasetIds, fault \in DeleteFaults :
           admin_delete_dataset(caller, d, fault)
    \/ \E caller \in Callers, d \in DatasetIds, genOk \in BOOLEAN :
           reprocess_dataset(caller, d, genOk)

SpecApi == Init /\ [][NextApi]_vars

\* The routes that serve tiles around a fault-free job: every caller, every route.
NextTiles ==
    \/ \E caller \in Callers \ {"admin"} : UploadOnce(caller)
    \/ \E d \in DatasetIds : JobRun(d)
    \/ \E caller \in Callers, d \in DatasetIds, zx \in TileRequests,
          format \in Formats :
           get_tile(caller, d, zx[1], zx[2], 0, format)
    \/ \E d \in DatasetIds, zx \in TileRequests, format \in Formats :
           get_tiles_batch("u1", d, BatchOf(1, <<zx[1], zx[2], 0, format>>),
                           FALSE, "a")
    \/ \E caller \in Callers, d \in DatasetIds : static_tiles(caller, d)

SpecTiles == Init /\ [][NextTiles]_vars

\* Streaming generation over a source with unreadable windows: one upload and
\* a job that meets no other fault.
NextStream ==
    \/ UploadOnce("u1")
    \/ \E d \in DatasetIds : JobRun(d)
    \/ \E d \in DatasetIds :
           /\ JobAt(d, "gen_zoom")
           /\ \E failing \in SUBSET TopZoomTiles(d) :
                  JobGenZoom(d, FALSE, failing, TRUE)

SpecStream == Init /\ [][NextStream]_vars

\* images around the tile size: a single pixel, below half a tile, half a
\* tile, just above it, one tile, just above one tile
SmallImages == {<<1, 1>>, <<100, 80>>, <<128, 128>>, <<129, 60>>, <<256, 256>>, <<257, 1>>}

\* Small images through a job that meets no fault.
NextSmall ==
    \/ \E name \in Names, size \in SmallImages :
           /\ NextId = MaxDatasets
           /\ job[NextId].pc = "none"
           /\ upload_dataset("u1", name, size)
    \/ \E d \in DatasetIds : JobRun(d)

SpecSmall == Init /\ [][NextSmall]_vars

\* Restarts beside the requests that change which ids and names are taken:
\* uploads and renames by a user, deletions by the owner and by the admin.
NextSync ==
    \/ \E name \in Names : upload_dataset("u1", name, <<256, 200>>)
    \/ \E d \in DatasetIds, name \in Names : update_dataset("u1", d, name)
    \/ \E d \in DatasetIds : delete_dataset("u1", d, "none")
    \/ \E d \in DatasetIds : admin_delete_dataset("admin", d, "none")
    \/ sync_datasets_from_cloud

SpecSync == Init /\ [][NextSync]_vars

\* the lists of KeyLists that walk tiles of the demo dataset in the order of
\* their zoom and column
DemoKeyLists ==
    {tiles \in KeyLists :
         /\ \A k \in DOMAIN tiles : <<1, tiles[k][2], tiles[k][3], tiles[k][4]>> \in DemoTiles
         /\ \A j, k \in DOMAIN tiles :
                j < k => tiles[j][2] + tiles[j][3] < tiles[k][2] + tiles[k][3]}

\* The tile generator alone: calls of generate_tiles in each mode, for images
\* of every max_zoom from -1 (smaller than half a tile) to MaxGenZoom, with
\* each step succeeding or raising.
NextGen ==
    \/ \E mode \in GenModes, has_rasterio \in BOOLEAN, max_zoom \in -1..MaxGenZoom :
           generate_tiles(mode, has_rasterio, max_zoom)
    \/ \E outcome \in GenOutcomes : GenBegin(outcome)
    \/ \E outcome \in GenOutcomes : GenLevel(outcome)
    \/ GenEnd

SpecGen == Init /\ [][NextGen]_vars

\* The memory cache under threads: two fetch_tiles_parallel_sync calls whose
\* lookups and worker tasks interleave, beside the lookups of the tile route
\* and clear_cache.
NextCache ==
    \/ \E c \in Calls, tiles \in DemoKeyLists : fetch_begin(c, tiles)
    \/ \E c \in Calls : fetch_lookup(c)
    \/ \E c \in Calls, k \in 1..MaxKeys, ok \in BOOLEAN : fetch_worker(c, k, "a", ok)
    \/ \E c \in Calls : fetch_return(c)
    \/ \E zx \in TileRequests : get_tile("u1", 1, zx[1], zx[2], 0, "jpg")
    \/ \E dataset_id \in {0} \cup DatasetIds : clear_cache(dataset_id)

SpecCache == Init /\ [][NextCache]_vars

\* Batch requests one after the other, each run to its end, for lists of
\* different keys; the objects may hold other bytes from one request to the
\* next. Beside them the lookups of the tile route and clear_cache.
NextRefetch ==
    \/ \E tiles \in BatchLists, reversed \in BOOLEAN, data \in TileData :
           get_tiles_batch("u1", 1, tiles, reversed, data)
    \/ \E zx \in TileRequests : get_tile("u1", 1, zx[1], zx[2], 0, "jpg")
    \/ \E dataset_id \in {0} \cup DatasetIds : clear_cache(dataset_id)

SpecRefetch == Init /\ [][NextRefetch]_vars

\* The tile cache across the end of a dataset: batch requests that fill the
\* cache, tile requests, the reprocess and the deletion of dataset 1, and an
\* upload with its fault-free job that takes the freed id.
NextStale ==
    \/ \E zx \in TileRequests :
           get_tiles_batch("u1", 1, BatchOf(1, <<zx[1], zx[2], 0, "jpg">>), FALSE, "a")
    \/ \E zx \in TileRequests : get_tile("u1", 1, zx[1], zx[2], 0, "jpg")
    \/ \E genOk \in BOOLEAN : reprocess_dataset("anon", 1, genOk)
    \/ admin_delete_dataset("admin", 1, "none")
    \/ /\ ~Exists(1)
       /\ upload_dataset("u1", "bigmap", <<513, 300>>)
    \/ JobRun(1)

SpecStale == Init /\ [][NextStale]_vars

\* The batch route with requests of every length drawn, beside the tile route
\* that reads the cache it fills.
NextBatch ==
    \/ \E d \in DatasetIds, n \in BatchSizes, zx \in TileRequests,
          format \in {"jpg", "png"} :
           get_tiles_batch("u1", d, BatchOf(n, <<zx[1], zx[2], 0, format>>),
                           FALSE, "a")
    \/ \E d \in DatasetIds, zx \in TileRequests, format \in {"jpg", "png"} :
           get_tile("u1", d, zx[1], zx[2], 0, format)

SpecBatch == Init /\ [][NextBatch]_vars

\* The sweeper beside the owner's requests: uploads, a fault-free job, expiry,
\* deletions by the owner and the passes of the sweeper.
NextSweep ==
    \/ \E name \in Names : upload_dataset("u1", name, <<513, 300>>)
    \/ \E d \in DatasetIds : JobRun(d)
    \/ \E d \in DatasetIds : Expire(d)
    \/ \E d \in DatasetIds : delete_dataset("u1", d, "none")
    \/ cleanup_scheduler

SpecSweep == Init /\ [][NextSweep]_vars

\* the first upload into an id
UploadFirst(caller, name) ==
    /\ NextId \in DatasetIds
    /\ job[NextId].pc = "none"
    /\ upload_dataset(caller, name, <<256, 200>>)

\* The sweeper over several user datasets: the admin removes the seeded
\* dataset, so that every id can hold an upload that expires.
NextExpiry ==
    \/ \E name \in Names : UploadFirst("u1", name)
    \/ \E d \in DatasetIds : JobRun(d)
    \/ \E d \in DatasetIds : Expire(d)
    \/ admin_delete_dataset("admin", 1, "none")
    \/ cleanup_scheduler

\* cleanup_scheduler is a loop that never ends (lines 121-135), so each step
\* of a pass is taken when it stays possible; a commit that is tried again in
\* every pass does not fail for ever.
SweeperFairness ==
    /\ WF_vars(SweepQuery)
    /\ WF_vars(\E d \in DatasetIds, ok \in BOOLEAN : SweepIter(d, ok))
    /\ WF_vars(SweepEnd)
    /\ \A d \in DatasetIds : SF_vars(SweepIter(d, TRUE))

SpecExpiry == Init /\ [][NextExpiry]_vars /\ SweeperFairness

\* a session of MaxChunks chunks, opened while no other session is open, in a
\* deployment without ObjectStore (no chunked upload endpoint reads it)
InitOne(filename) ==
    /\ ~cloudEnabled
    /\ \A u \in UploadIds : ~chunked_uploads[u].open
    /\ init_chunked_upload(filename, MaxChunks, MaxChunks)

\* The chunked upload endpoints, one session after the other: every index a
\* client can send, every order, re-sends and failing writes.
NextChunk ==
    \/ \E filename \in FileNames : InitOne(filename)
    \/ \E u \in UploadIds, i \in ChunkIndexes, B \in Contents, written \in BOOLEAN :
           upload_chunk(u, i, B, written)
    \/ \E u \in UploadIds, name \in Names, free \in FreeSpace :
           complete_chunked_upload(u, name, free)
    \/ \E u \in UploadIds : cancel_chunked_upload(u)

SpecChunk == Init /\ [][NextChunk]_vars

\* Calls of complete that interleave at their awaits, for sessions whose
\* chunks arrive once each and are written.
NextComplete ==
    \/ InitOne("scan.tif")
    \/ \E u \in UploadIds, i \in 0..(MaxChunks - 1), B \in Contents :
           /\ i \notin chunked_uploads[u].received_chunks
           /\ upload_chunk(u, i, B, TRUE)
    \/ \E c \in Calls, u \in UploadIds, name \in Names : complete_begin(c, u, name)
    \/ \E c \in Calls : complete_copy(c)
    \/ \E c \in Calls : complete_finish(c)

SpecComplete == Init /\ [][NextComplete]_vars

\* The names of the datasets: creates in one step and in two, renames, the
\* deletions that free an id and a name, and a job that ends at its memory
\* check (the job reads and writes no name).
NextNames ==
    \/ \E name \in Names : upload_dataset("u1", name, <<100, 80>>)
    \/ \E caller \in ActiveUsers, name \in Names : create_check(caller, name)
    \/ \E caller \in ActiveUsers, name \in Names :
           create_insert(caller, name, <<100, 80>>)
    \/ \E d \in DatasetIds, ok \in BOOLEAN : JobStart(d, "low", ok)
    \/ \E caller \in {"u1", "anon"}, d \in DatasetIds, name \in Names :
           update_dataset(caller, d, name)
    \/ \E d \in DatasetIds : delete_dataset("u1", d, "none")
    \/ admin_delete_dataset("admin", 1, "none")

SpecNames == Init /\ [][NextNames]_vars

\* Creates of readable and of unreadable files, the job that ends at its
\* memory check, and the deletions that free an id and a name.
NextCreate ==
    \/ \E name \in Names : upload_dataset("u1", name, <<100, 80>>)
    \/ \E caller \in Callers, name \in Names, raised \in MetadataErrors :
           upload_unreadable(caller, name, raised)
    \/ \E d \in DatasetIds, ok \in BOOLEAN : JobStart(d, "low", ok)
    \/ \E caller \in {"u1", "admin"}, d \in DatasetIds :
           delete_dataset(caller, d, "none")
    \/ \E d \in DatasetIds : admin_delete_dataset("admin", d, "none")

SpecCreate == Init /\ [][NextCreate]_vars

\* ================================================================ properties

\* ceil(orig * 2^(zoom - max_zoom) / tile_size), computed exactly
PyramidTilesAcross(orig, zoom, max_zoom) ==
    (orig + TILE_SIZE * Pow2(max_zoom - zoom) - 1) \div (TILE_SIZE * Pow2(max_zoom - zoom))

\* every (z, x, y) of the pyramid of dataset d as the row describes it
PyramidOf(d) ==
    LET row == datasets[d] IN
    UNION {{<<d, z, x, y>> :
               x \in 0..(PyramidTilesAcross(row.width, z, row.max_zoom) - 1),
               y \in 0..(PyramidTilesAcross(row.height, z, row.max_zoom) - 1)} :
           z \in 0..row.max_zoom}

\* C1: a completed dataset has, for every zoom 0..max_zoom and every (x, y)
\* below ceil(width * 2^(z - max_zoom) / tile_size) and
\* ceil(height * 2^(z - max_zoom) / tile_size), a tile on local disk or in the
\* ObjectStore.
C1_CompletedPyramidPresent ==
    \A d \in DatasetIds :
        (Exists(d) /\ datasets[d].processing_status = "completed")
            => PyramidOf(d) \subseteq (localTiles \cup cloudTiles)

TileOps == {"get_tile", "get_tiles_batch", "static_tiles"}

\* C2: on every route that serves tiles, bytes of a non-demo dataset go only
\* to the caller whose id is the dataset's owner_id, and no caller is refused
\* the tiles of a demo dataset.
C2_TileBytesOnlyToOwner ==
    /\ (resp.op \in TileOps /\ resp.bytes /\ resp.existed /\ ~resp.demo)
           => resp.caller = resp.owner
    /\ (resp.op \in TileOps /\ resp.demo) => resp.code \notin {"401", "403"}

\* C3: an update, delete or reprocess request on a demo dataset, from any
\* caller (anonymous, ordinary user or admin), is refused and changes nothing.
C3_DemoImmutable ==
    (resp.op \in {"update", "delete", "reprocess", "admin_delete"} /\ resp.demo)
        => (resp.code \in {"401", "403"} /\ ~resp.effect)

\* C4: update, delete and reprocess of a non-demo dataset take effect only for
\* an authenticated, active caller whose id is the dataset's owner_id.
C4_OnlyOwnerMutates ==
    (resp.op \in {"update", "delete", "reprocess"} /\ resp.existed /\ ~resp.demo
     /\ resp.effect)
        => (resp.caller \in ActiveUsers /\ resp.caller = resp.owner)

\* a step of create_entry or of the tile job of d on a row that exists before
\* and after it
JobStepOn(d) == job'[d] # job[d] /\ Exists(d) /\ datasets'[d].exists

Lifecycle ==
    {<<"pending", "processing">>, <<"processing", "completed">>,
     <<"processing", "failed">>}

\* C5: every change of processing_status made by create_entry and the tile job
\* follows pending -> processing -> (completed | failed).
C5_StatusLifecycle ==
    [][\A d \in DatasetIds :
         (JobStepOn(d) /\ datasets'[d].processing_status # datasets[d].processing_status)
             => <<datasets[d].processing_status, datasets'[d].processing_status>>
                  \in Lifecycle]_vars

\* C6: once the job has set completed, no later step of the same job (preview,
\* resource checks, replication, or an error in them) changes processing_status.
C6_CompletedIsFinalForJob ==
    [][\A d \in DatasetIds :
         (JobStepOn(d) /\ job[d].pc \in {"preview", "disk", "upload", "final"}
          /\ datasets[d].processing_status = "completed")
             => datasets'[d].processing_status = "completed"]_vars

\* C7: a job that has ended for a dataset that exists left the persisted
\* processing_status completed or failed, and no exception left the job.
C7_JobEndsCompletedOrFailed ==
    \A d \in DatasetIds :
        (job[d].pc = "done" /\ Exists(d))
            => /\ datasets[d].processing_status \in {"completed", "failed"}
               /\ ~job[d].escaped

\* C8: the replication step sets tiles_uploaded_to_cloud only when every tile
\* reached the ObjectStore; when a tile upload failed the flag stays false,
\* r2_upload_error is recorded and the dataset stays completed.
C8_FlagOnlyAfterFullReplication ==
    [][\A d \in DatasetIds :
         (JobStepOn(d) /\ job[d].pc = "upload")
             => LET replicated == TilesOf(localTiles, d) \subseteq cloudTiles' IN
                /\ (datasets'[d].tiles_uploaded_to_cloud
                    /\ ~datasets[d].tiles_uploaded_to_cloud) => replicated
                /\ ~replicated =>
                      /\ ~datasets'[d].tiles_uploaded_to_cloud
                      /\ datasets'[d].r2_upload_error
                      /\ datasets'[d].processing_status = datasets[d].processing_status]_vars

\* C9: DatasetProcessor.delete_dataset removes a row only after the local tile
\* directory is gone and, with the ObjectStore enabled, a delete of the prefix
\* tiles/{id}/ was issued.
C9_RowDeletedAfterPrefixDelete ==
    [][\A d \in DatasetIds :
         (Exists(d) /\ ~datasets'[d].exists /\ resp'.op \in {"delete", "admin_delete"})
             => /\ TilesOf(localTiles', d) = {}
                /\ cloudEnabled => d \in prefixDeletes']_vars

\* C10: when a sweeper pass has deleted the row of an expired dataset, its
\* local tiles, its ObjectStore tiles, its metadata key and its previews are gone.
C10_SweepLeavesNoArtifacts ==
    [][\A d \in DatasetIds :
         (Exists(d) /\ ~datasets'[d].exists /\ resp'.op = "sweep")
             => /\ TilesOf(localTiles', d) = {}
                /\ TilesOf(cloudTiles', d) = {}
                /\ d \notin MetaIds(cloudMeta')
                /\ d \notin localPreview'
                /\ d \notin cloudPreview']_vars

\* what the sweeper can reach of dataset d: its row, its local files and its
\* ObjectStore objects
ArtifactsOf(d) ==
    <<datasets[d], TilesOf(localTiles, d), d \in origFile, d \in localPreview,
      TilesOf(cloudTiles, d), d \in cloudPreview,
      {m \in cloudMeta : m[1] = d}>>

\* a non-demo dataset whose expires_at is set and has passed
Overdue(d) ==
    /\ Exists(d) /\ ~datasets[d].is_demo
    /\ datasets[d].has_expiry /\ datasets[d].expired

\* C11: a step of a sweeper pass changes the row, the files and the
\* ObjectStore objects of no dataset other than a non-demo dataset whose
\* expires_at is set and has passed: every demo dataset and every unexpired
\* dataset is left as it was.
C11_SweepTouchesOnlyExpired ==
    [][\A d \in DatasetIds :
         (sweeper' # sweeper /\ Exists(d) /\ ~Overdue(d))
             => ArtifactsOf(d)' = ArtifactsOf(d)]_vars

ChunkStep(op, u) == resp' # resp /\ resp'.op = op /\ resp'.req[1] = u

AllIndexes(u) == 0..(chunked_uploads[u].total_chunks - 1)

\* C13: received_chunks of a session is always a subset of [0, N); complete
\* assembles only when it equals [0, N), and otherwise answers the missing-
\* chunks error and leaves the session and its chunk files as they were.
C13_AssembleOnlyWhenAllReceived ==
    [][\A u \in UploadIds :
         /\ chunked_uploads'[u].open =>
                chunked_uploads'[u].received_chunks
                    \subseteq 0..(chunked_uploads'[u].total_chunks - 1)
         /\ (ChunkStep("complete", u) /\ chunked_uploads[u].open
             /\ chunked_uploads[u].received_chunks # AllIndexes(u))
                => /\ resp'.note = "missing"
                   /\ UNCHANGED <<chunked_uploads, tempDir, uploadDir>>]_vars

C15_AppendIdempotent ==
    \A u \in UploadIds : chunked_uploads[u].open =>
        \A i \in ChunkIndexes, B \in Contents :
            LET once == append_chunk(chunked_uploads[u], tempDir[u], i, B)
                twice == append_chunk(once.session, once.files, i, B)
            IN
            /\ twice.files = once.files
            /\ twice.session.received_chunks = once.session.received_chunks
            /\ twice.received = once.received

\* a chunk that was sent again with the body already on disk
C15_Witness == resp.op = "chunk" /\ resp.code = "200" /\ resp.note = "again"

\* an upload id whose session has ended
Closed(u) == chunked_uploads[u].issued /\ ~chunked_uploads[u].open

\* C16: when complete has run its assembly (accepted or failed) or cancel has
\* been called, the session is gone and its temp directory removed; from then
\* on every append_chunk, complete or cancel for that upload id is answered
\* as an unknown session and writes no file and no Dataset.
C16_ClosedSessionStaysClosed ==
    [][\A u \in UploadIds :
         /\ ((ChunkStep("complete", u) \/ ChunkStep("cancel", u))
              /\ resp'.note \notin {"unknown", "missing"})
                => Closed(u)' /\ tempDir'[u] = NoChunks
         /\ Closed(u) =>
                /\ Closed(u)' /\ tempDir'[u] = NoChunks
                /\ (ChunkStep("chunk", u) \/ ChunkStep("complete", u)
                    \/ ChunkStep("cancel", u))
                       => /\ resp'.code = "404"
                          /\ UNCHANGED <<uploadDir, tempDir, datasets, job>>]_vars

\* a request for an upload id whose session has ended
C16_Witness ==
    /\ resp.op \in {"chunk", "complete", "cancel"}
    /\ resp.note = "unknown"
    /\ chunked_uploads[resp.req[1]].issued

\* C17: complete, with less free disk than twice the filesize of the session,
\* aborts with insufficient-disk: no file is written, no Dataset created and
\* no tile job scheduled.
C17_InsufficientDiskAborts ==
    [][\A u \in UploadIds :
         (ChunkStep("complete", u) /\ resp'.note \notin {"unknown", "missing"}
          /\ resp'.req[3] < 2 * chunked_uploads[u].filesize)
             => /\ resp'.note = "insufficient-disk"
                /\ UNCHANGED <<uploadDir, datasets, job>>]_vars

NamesDistinct ==
    \A d, e \in DatasetIds :
        (d # e /\ Exists(d) /\ Exists(e)) => datasets[d].name # datasets[e].name

\* C18: no two Dataset rows have the same name; a create (in one step or
\* racing another) and a rename change no row but the one they create or
\* rename, and change none when they are refused.
C18_NamesUnique ==
    /\ NamesDistinct
    /\ [][/\ NamesDistinct'
          /\ (resp' # resp /\ resp'.op \in {"upload", "update"})
                => /\ \A e \in DatasetIds \ {resp'.ds} : datasets'[e] = datasets[e]
                   /\ resp'.code \notin {"200", "201"} => datasets' = datasets]_vars

\* a create or a rename that was refused because another row holds the name
C18_Witness ==
    /\ resp.op \in {"upload", "update"}
    /\ resp.code \in {"400", "500"}
    /\ Cardinality(ExistingIds) = MaxDatasets

\* a step of get_tile
TileStep == resp' # resp /\ resp'.op = "get_tile"

\* the request of the step is authorized and the dataset is being served
Servable(caller, d) ==
    /\ TileAccess(caller, d) = "ok"
    /\ datasets[d].processing_status \in {"completed", "processing"}

\* the tile is in the ObjectStore or on local disk, in whatever format
TilePresent(d, z, x, y) ==
    \/ cloudEnabled /\ <<d, z, x, y>> \in cloudTiles
    \/ <<d, z, x, y>> \in localTiles

\* C19: an authorized request for a tile of a dataset that is completed or
\* processing, with z <= max_zoom, is answered not-found only if the tile is
\* in neither the ObjectStore nor the local tree in any format; when it is in
\* one of them the response carries it and X-Tile-Format names the format sent.
C19_TileFoundWhereverItIs ==
    [][(TileStep /\ Servable(resp'.caller, resp'.ds)
        /\ resp'.req[1] <= datasets[resp'.ds].max_zoom)
           => LET d == resp'.ds
                  present == TilePresent(d, resp'.req[1], resp'.req[2], resp'.req[3])
              IN
              /\ resp'.code = "404" => ~present
              /\ present => /\ resp'.code = "200" /\ resp'.bytes
                            /\ resp'.req[5] = tileFormat[d]
                            /\ resp'.req[6] = resp'.req[5]]_vars

\* C20: an authorized request with z > max_zoom for a dataset that is being
\* served is answered bad-request and never with tile bytes or a redirect,
\* whichever of the cache, the ObjectStore and the local tree is consulted.
C20_ZoomBeyondMaxRejected ==
    [][(TileStep /\ Servable(resp'.caller, resp'.ds)
        /\ resp'.req[1] > datasets[resp'.ds].max_zoom)
           => resp'.code = "400" /\ ~resp'.bytes]_vars

\* a step of get_tiles_batch
BatchStep == resp' # resp /\ resp'.op = "get_tiles_batch"

\* C21: a batch request of at most 100 keys has every key processed (each key
\* the cache or the ObjectStore holds is fetched); a request of more than 100
\* keys is answered bad-request, with no tile fetched and none returned.
C21_BatchLimit ==
    [][(BatchStep /\ TileAccess(resp'.caller, resp'.ds) = "ok")
           => LET d == resp'.ds
                  tiles == resp'.req[1]
              IN
              /\ Len(tiles) <= 100 =>
                    \A t \in Range(tiles) :
                        (cloudEnabled /\ tile_exists(d, t[1], t[2], t[3], t[4]))
                            => \E r \in resp'.req[2] :
                                   r[1] = <<d, t[1], t[2], t[3], t[4]>>
              /\ Len(tiles) > 100 =>
                    /\ resp'.code = "400" /\ ~resp'.bytes
                    /\ tile_cache' = tile_cache]_vars

\* the step in which the job of d streams the max-zoom level from the source
StreamStep(d) ==
    /\ job[d].pc = "gen_zoom" /\ job[d].gen = "perfect"
    /\ job[d].zoom = JobMaxZoom(d)
    /\ job'[d] # job[d]
    /\ Exists(d)

C23_TinyImageHasRootTile ==
    /\ [](\A d \in DatasetIds : Exists(d) => datasets[d].max_zoom >= 0)
    /\ [][\A d \in DatasetIds :
            (Exists(d) /\ datasets[d].processing_status # "completed"
             /\ datasets'[d].processing_status = "completed")
                => <<d, 0, 0, 0>> \in localTiles']_vars

\* the step in which the job of d finds too little free disk and ends
DiskCheckFails(d) == JobAt(d, "disk") /\ job'[d].pc = "done" /\ Exists(d)

\* C24: the disk-space check comes before the transition to processing: when
\* it fails the dataset has not been processing or completed, no tile of it
\* has been written, and the job ends failed with extra_metadata.error set.
C24_DiskCheckBeforeProcessing ==
    [][\A d \in DatasetIds :
         DiskCheckFails(d)
             => /\ datasets[d].processing_status \notin {"processing", "completed"}
                /\ TilesOf(localTiles, d) = {}
                /\ datasets'[d].processing_status = "failed"
                /\ datasets'[d].error]_vars

\* a run of the startup reconciliation
SyncStep == resp' # resp /\ resp'.op = "sync"

\* C25: after startup reconciliation every metadata document in the
\* ObjectStore whose id had no row has a row with is_demo = true, no owner and
\* no expiry; the rows that existed are unchanged, no other row appears, and
\* a second run right after the first inserts nothing.
C25_ReconciliationInsertsMissing ==
    [][SyncStep
          => /\ \A m \in cloudMeta :
                   (cloudEnabled /\ ~Exists(m[1]))
                       => /\ datasets'[m[1]].exists
                          /\ datasets'[m[1]].is_demo
                          /\ datasets'[m[1]].owner_id = NoOwner
                          /\ ~datasets'[m[1]].has_expiry
             /\ \A d \in DatasetIds :
                   /\ Exists(d) => datasets'[d] = datasets[d]
                   /\ (~Exists(d) /\ d \notin MetaIds(cloudMeta))
                          => ~datasets'[d].exists
             /\ resp.op = "sync" => datasets' = datasets]_vars

\* C26: under any interleaving of the lookups, the worker tasks of concurrent
\* fetch_tiles_parallel_sync calls and clear_cache, the memory cache never
\* holds more than max_cache_size entries.
C26_CacheWithinCapacity == Len(tile_cache) <= max_cache_size

\* a full cache while both calls have worker tasks still to store their tile
C26_Witness ==
    /\ Len(tile_cache) = max_cache_size
    /\ \A c \in Calls : pool[c].pc = "wait" /\ pool[c].tasks # {}
    /\ \E c \in Calls : \E k \in pool[c].tasks :
           pool[c].tiles[k] \notin CacheKeys(tile_cache)

\* a list without a repeated key
NoRepeat(seq) == \A j, k \in DOMAIN seq : j # k => seq[j] # seq[k]

\* C27: when a batch of different keys that fits in the cache got the bytes of
\* every key, the same batch requested again right after it makes no network
\* fetch and returns the same bytes for every key.
C27_SecondFetchFromCache ==
    [][(/\ BatchStep
        /\ resp.op = "get_tiles_batch" /\ resp.code = "200" /\ resp'.code = "200"
        /\ resp'.ds = resp.ds /\ resp'.req[1] = resp.req[1]
        /\ NoRepeat(resp.req[1]) /\ Len(resp.req[1]) <= max_cache_size
        /\ Cardinality(resp.req[2]) = Len(resp.req[1]))
           => /\ resp'.req[3] = 0
              /\ resp'.req[2] = resp.req[2]]_vars

\* a batch of as many keys as the cache holds answered without a fetch
C27_Witness ==
    /\ resp.op = "get_tiles_batch" /\ resp.code = "200"
    /\ Len(resp.req[1]) = max_cache_size
    /\ Cardinality(resp.req[2]) = max_cache_size
    /\ resp.req[3] = 0

\* a pass of the zoom loop of d's job that puts tile files on disk
WritesTiles(d) ==
    /\ JobAt(d, "gen_zoom") /\ job'[d] # job[d]
    /\ TilesOf(localTiles', d) # TilesOf(localTiles, d)

\* C28: no tile file of a job is written while the persisted status of its
\* dataset is still pending, also when the commit of "processing" failed.
C28_ProcessingBeforeFirstTile ==
    [][\A d \in DatasetIds :
          (WritesTiles(d) /\ Exists(d))
              => datasets[d].processing_status # "pending"]_vars

\* C29: within one generate_tiles call the values passed to progress_callback
\* never decrease, lie in 0..100, and end with 100 when the call returns True,
\* in streaming, in-memory (with its MemoryError fallback) and PSB mode.
C29_ProgressMonotone ==
    LET calls == tile_gen.calls
    IN
    /\ \A j, k \in DOMAIN calls : j < k => calls[j] <= calls[k]
    /\ \A k \in DOMAIN calls : calls[k] \in 0..100
    /\ tile_gen.result = "True" => (calls # <<>> /\ calls[Len(calls)] = 100)

\* a pass of the zoom loop of PerfectTileGenerator in d's job
ZoomPass(d) ==
    /\ JobAt(d, "gen_zoom") /\ job[d].gen = "perfect"
    /\ job'[d] # job[d] /\ Exists(d)

\* C30: a zoom level whose generation raises is skipped and the generator goes
\* on with the lower levels: no pass of the zoom loop ends the job.
C30_ZoomFailureSkipped ==
    [][\A d \in DatasetIds :
          ZoomPass(d) => job'[d].pc \in {"gen_zoom", "mark"}]_vars

\* the entries of the cache after a step that were not in it before
NewEntries == Range(tile_cache') \ Range(tile_cache)

\* C31: an entry enters the memory cache only in a step that read that exact
\* key (id, z, x, y, format) from the ObjectStore with success, and a tile
\* answered from the memory cache is an entry the cache holds; so every hit
\* is preceded by a successful read of its key.
C31_HitAfterSuccessfulRead ==
    [][/\ \A e \in NewEntries :
            /\ cloudEnabled
            /\ tile_exists(e[1][1], e[1][2], e[1][3], e[1][4], e[1][5])
            /\ e[2] \in TileData
            /\ resp'.op \in {"get_tiles_batch", "fetch_worker"}
       /\ (TileStep /\ resp'.note = "memory-cache")
              => <<resp'.ds, resp'.req[1], resp'.req[2], resp'.req[3], resp'.req[4]>>
                     \in CacheKeys(tile_cache)]_vars

\* a tile answered from the memory cache
C31_Witness == resp.op = "get_tile" /\ resp.note = "memory-cache"

\* a worker task that stores the bytes it fetched: cache_tile(key, data)
PutStep ==
    /\ pool' # pool /\ resp'.op = "fetch_worker"
    /\ cloudEnabled /\ resp'.req[2] # None

\* C32: a put evicts only when the key is new and the cache is full, the entry
\* it evicts is the oldest one, and the key it stores is afterwards the most
\* recently used entry, as a key is after a lookup that hit.
C32_EvictsLruOnOverflowOnly ==
    [][PutStep
          => LET key == resp'.req[1]
                 evicted == CacheKeys(tile_cache) \ CacheKeys(tile_cache')
             IN
             /\ evicted # {} => /\ key \notin CacheKeys(tile_cache)
                                /\ Len(tile_cache) = max_cache_size
                                /\ evicted = {tile_cache[1][1]}
             /\ tile_cache'[Len(tile_cache')][1] = key]_vars


\* the ingestion job of dataset d is between its commit of "processing" and
\* its last step
JobProcessing(d) ==
    /\ Exists(d)
    /\ job[d].pc \notin {"none", "start", "done"}
    /\ datasets[d].processing_status = "processing"

\* C33: at most one tile-generation run writes under tiles/{id}/ at a time: a
\* reprocess of a dataset whose ingestion job is still in processing neither
\* deletes nor writes a tile of that dataset.
C33_OneGeneratorPerDataset ==
    [][(resp' # resp /\ resp'.op = "reprocess" /\ JobProcessing(resp'.ds))
          => TilesOf(localTiles', resp'.ds) = TilesOf(localTiles, resp'.ds)]_vars


\* an upload operation returned the dataset it created
UploadCreated ==
    /\ resp' # resp
    /\ \/ resp'.op = "upload" /\ resp'.code = "201"
       \/ resp'.op = "complete" /\ resp'.code = "200"

\* C34: a dataset created by an upload, single-shot or chunked complete, is
\* non-demo, owned by a user and carries an expiry time once the operation
\* has returned.
C34_UploadOwnedAndExpiring ==
    [][UploadCreated
          => LET row == datasets'[resp'.ds] IN
             /\ row.exists
             /\ ~row.is_demo
             /\ row.owner_id \in ActiveUsers
             /\ row.has_expiry]_vars


\* an upload operation, single-shot or chunked complete, has answered
UploadStep == resp' # resp /\ resp'.op \in {"upload", "complete"}

\* C35: an upload, successful or failed, neither removes nor overwrites the
\* original file of a dataset that existed before it.
C35_UploadKeepsOtherOriginals ==
    [][UploadStep
          => \A d \in DatasetIds :
                 (Exists(d) /\ d \in origFile /\ datasets[d].original_file_path # "")
                     => /\ d \in origFile'
                        /\ uploadDir'[datasets[d].original_file_path]
                               = uploadDir[datasets[d].original_file_path]]_vars


\* create_dataset_entry failed after its uniqueness check
CreateFailed == resp' # resp /\ resp'.op = "upload" /\ resp'.note = "metadata"

\* C36: a create that fails after the uniqueness check leaves no Dataset row
\* of that name behind, so the name is free for a later create.
C36_CreateAtomicOnFailure ==
    [][CreateFailed
          => \A d \in DatasetIds :
                 datasets'[d].exists => datasets'[d].name # resp'.req[1]]_vars


\* a step of the ingestion job of d, which was started before the step
JobStepOf(d) == job'[d] # job[d] /\ job[d].pc \notin {"none", "done"}

\* C37: a running ingestion job does not recreate artifacts of a dataset that
\* was deleted under it: once the row is gone, no step of the job adds a local
\* tile file or an ObjectStore tile of that id.
C37_JobCreatesNothingAfterDelete ==
    [][\A d \in DatasetIds :
           (JobStepOf(d) /\ ~Exists(d))
               => /\ TilesOf(localTiles', d) \subseteq TilesOf(localTiles, d)
                  /\ TilesOf(cloudTiles', d) \subseteq TilesOf(cloudTiles, d)]_vars


\* a deletion that removed the row of d, or a reprocess that regenerated its tiles
Invalidated(d) ==
    /\ resp' # resp /\ resp'.ds = d
    /\ \/ /\ resp'.op \in {"delete", "admin_delete"}
          /\ datasets[d].exists /\ ~datasets'[d].exists
       \/ resp'.op = "reprocess" /\ resp'.code = "200"

\* C38: after a dataset is deleted or reprocessed no entry of the tile cache
\* that was fetched before is left to answer a request for that id.
C38_NoStaleCacheEntries ==
    [][\A d \in DatasetIds :
           Invalidated(d) => \A key \in CacheKeys(tile_cache') : key[1] # d]_vars


\* a call of complete created a dataset from the session it holds
CompleteCreated(c) ==
    /\ completes[c].pc = "copy" /\ completes'[c].pc = "idle"
    /\ resp'.op = "complete_call" /\ resp'.code = "200"

\* C39: of the complete calls of one upload session, interleaved at their
\* awaits, at most one creates a Dataset and schedules a job (the one that
\* closes the session), and the file handed to that job is the in-order
\* concatenation of the session's chunks.
C39_ConcurrentCompleteSafe ==
    [][\A c \in Calls :
           CompleteCreated(c)
               => LET call == completes[c] IN
                  /\ chunked_uploads[call.u].open
                  /\ ~chunked_uploads'[call.u].open
                  /\ uploadDir'[call.session.filename].content
                         = ReadChunks(tempDir[call.u], 0, call.session.total_chunks)]_vars


\* the job of d writes a level below max_zoom with PerfectTileGenerator
DownsampleStep(d) ==
    /\ job[d].pc = "gen_zoom" /\ job[d].gen = "perfect"
    /\ job[d].zoom < JobMaxZoom(d)
    /\ localTiles' # localTiles

\* C40: the pyramid is closed under the parent relation: when the generator
\* has written zoom z < max_zoom, every tile (x', y') of zoom z + 1 has its
\* parent (x' div 2, y' div 2) among the tiles of zoom z.
C40_PyramidClosedUnderParent ==
    [][\A d \in DatasetIds :
           DownsampleStep(d)
               => \A t \in ZoomTiles(d, job[d].zoom + 1, JobMaxZoom(d),
                                      job[d].size[1], job[d].size[2]) :
                      <<d, job[d].zoom, t[3] \div 2, t[4] \div 2>> \in localTiles']_vars

====
